---- MODULE Spec2Model ----
(***************************************************************************)
(* In-memory pub/sub broker: PubSubEngine + SubscriberQueue (pubsub.js),   *)
(* WebSocketHandler (websocket handler) and the topic REST routes.         *)
(* Node.js runs every handler to completion, so each handler is one        *)
(* atomic action; the asynchronous inputs are connection arrival, inbound  *)
(* protocol messages, transport close events and REST calls.               *)
(***************************************************************************)
EXTENDS Integers, Sequences, FiniteSets, TLC

\* ---------------------------------------------------------------- bounds
MaxQueueSize == 2          \* options.maxQueueSize of the modelled engine
MaxMessagesPerTopic == 2   \* options.maxMessagesPerTopic of the modelled engine
MaxPublishes == 3          \* publish requests accepted by the engine in a run
MaxCreates == 2            \* successful createTopic calls in a run
MaxLastN == 3              \* largest last_n a subscribe request carries

Topics == {"A", "B"}
ClientIds == {"x", "y"}
Conns == {"k1", "k2"}      \* connection ids of generateClientId, never reused
Policies == {"drop_oldest", "disconnect"}

NoVal == "undefined"       \* a missing JSON field / JS undefined

\* ---------------------------------------------------------------- state
VARIABLES
  topics,            \* PubSubEngine.topics: name -> [subscribers, messages, createdAt]
  clientTopics,      \* PubSubEngine.clientTopics: clientId -> set of topic names
  subscriberQueues,  \* PubSubEngine.subscriberQueues: clientId -> SubscriberQueue
  backpressurePolicy,\* PubSubEngine.backpressurePolicy
  heartbeatTimer,    \* PubSubEngine.heartbeatTimer is set
  clients,           \* WebSocketHandler.clients: connectionId -> clientInfo
  connectionCounter, \* WebSocketHandler.connectionCounter
  ws,                \* per connection socket: readyState and the close reason given
  now,               \* Date.now(), advanced by topic creation
  pubCount,          \* number of publish requests that reached the ring buffer
  topicLog,          \* history: ids published to a topic since it was created
  fed,               \* history: ids fanned out to a client since it last went from
                     \* no subscription to one
  shutdownPc,        \* position of PubSubServer's shutdown handler
  openAtShutdown,    \* history: the connections that were OPEN when shutdown began
  beatAt             \* history: position of the shutdown handler at the latest
                     \* 'heartbeat' emit, "none" before the first

vars == << topics, clientTopics, subscriberQueues, backpressurePolicy, heartbeatTimer,
           clients, connectionCounter, ws, now, pubCount, topicLog, fed,
           shutdownPc, openAtShutdown, beatAt >>

\* ---------------------------------------------------------------- JS Map helpers
MapSet(f, k, v) == [x \in (DOMAIN f) \cup {k} |-> IF x = k THEN v ELSE f[x]]

MapDelete(f, k) == [x \in (DOMAIN f) \ {k} |-> f[x]]

EmptyMap == [x \in {} |-> NoVal]

\* mutant of SliceLast: the first n elements instead of the last n
SliceFirst(s, n) ==
  IF n >= Len(s) THEN s ELSE SubSeq(s, 1, n)

\* Array.prototype.slice(-n) for n > 0: the last min(n, length) elements
SliceLast(s, n) ==
  IF n >= Len(s) THEN s ELSE SubSeq(s, Len(s) - n + 1, Len(s))

\* index of clientId in a topic's subscriber Map (insertion order), 0 if absent
RECURSIVE SubIndex(_, _, _)
SubIndex(subs, cid, i) ==
  IF i > Len(subs) THEN 0
  ELSE IF subs[i].clientId = cid THEN i
  ELSE SubIndex(subs, cid, i + 1)

SubHas(subs, cid) == SubIndex(subs, cid, 1) # 0

\* Map.delete on the subscriber Map keeps the order of the other entries
RECURSIVE SubDelete(_, _)
SubDelete(subs, cid) ==
  IF subs = << >> THEN << >>
  ELSE IF Head(subs).clientId = cid THEN Tail(subs)
  ELSE << Head(subs) >> \o SubDelete(Tail(subs), cid)

SubIds(subs) == { subs[i].clientId : i \in 1..Len(subs) }

SubConns(subs) == { subs[i].ws : i \in 1..Len(subs) }

\* ---------------------------------------------------------------- transport
\* ws.readyState === WebSocket.OPEN
IsOpen(w, c) == w[c].readyState = "OPEN"

\* ws.close(code, reason): an OPEN socket starts its closing handshake; the
\* 'close' event is delivered later, as its own task
WsClose(w, c, reason) ==
  IF w[c].readyState = "OPEN"
  THEN [w EXCEPT ![c] = [readyState |-> "CLOSING", closeReason |-> reason]]
  ELSE w

\* ---------------------------------------------------------------- frames
\* the event object built by publish (messageToSend) and by replay
EventFrame(topicName, message, replay) ==
  [type |-> "event", topic |-> topicName, message |-> message, replay |-> replay]

\* a message object none of whose fields is set (also: no message object at all)
NoMsg == [id |-> 0, payload |-> NoVal, ts |-> 0]

\* ack / error / pong / info frames; the topic field carries the error code
Frame(type, code) ==
  [type |-> type, topic |-> code, message |-> NoMsg, replay |-> FALSE]

NoFrame == Frame("none", NoVal)

\* ---------------------------------------------------------------- SubscriberQueue
NewQueue(cid, maxSize, policy) ==
  [clientId |-> cid, maxSize |-> maxSize, policy |-> policy,
   queue |-> << >>, droppedCount |-> 0, totalProcessed |-> 0]

\* mutant of QueueAdd: a message that fits is put at the head of the queue
\* (unshift instead of push)
QueueAddAtHead(q, message) ==
  IF Len(q.queue) >= q.maxSize
  THEN IF q.policy = "disconnect"
       THEN [q |-> q, closes |-> TRUE,
             result |-> [success |-> FALSE, action |-> "disconnected",
                         reason |-> "SLOW_CONSUMER", droppedMessage |-> NoFrame,
                         droppedCount |-> q.droppedCount]]
       ELSE [q |-> [q EXCEPT !.queue = Append(Tail(q.queue), message),
                             !.droppedCount = q.droppedCount + 1,
                             !.totalProcessed = q.totalProcessed + 1],
             closes |-> FALSE,
             result |-> [success |-> TRUE, action |-> "dropped_oldest",
                         reason |-> NoVal, droppedMessage |-> Head(q.queue),
                         droppedCount |-> q.droppedCount + 1]]
  ELSE [q |-> [q EXCEPT !.queue = << message >> \o q.queue,
                        !.totalProcessed = q.totalProcessed + 1],
        closes |-> FALSE,
        result |-> [success |-> TRUE, action |-> "added",
                    reason |-> NoVal, droppedMessage |-> NoFrame,
                    droppedCount |-> q.droppedCount]]

\* mutant of QueueAdd: the queue counts as full one message too late (> in
\* place of >=)
QueueAddFullTooLate(q, message) ==
  IF Len(q.queue) > q.maxSize
  THEN IF q.policy = "disconnect"
       THEN [q |-> q, closes |-> TRUE,
             result |-> [success |-> FALSE, action |-> "disconnected",
                         reason |-> "SLOW_CONSUMER", droppedMessage |-> NoFrame,
                         droppedCount |-> q.droppedCount]]
       ELSE [q |-> [q EXCEPT !.queue = Append(Tail(q.queue), message),
                             !.droppedCount = q.droppedCount + 1,
                             !.totalProcessed = q.totalProcessed + 1],
             closes |-> FALSE,
             result |-> [success |-> TRUE, action |-> "dropped_oldest",
                         reason |-> NoVal, droppedMessage |-> Head(q.queue),
                         droppedCount |-> q.droppedCount + 1]]
  ELSE [q |-> [q EXCEPT !.queue = Append(q.queue, message),
                        !.totalProcessed = q.totalProcessed + 1],
        closes |-> FALSE,
        result |-> [success |-> TRUE, action |-> "added",
                    reason |-> NoVal, droppedMessage |-> NoFrame,
                    droppedCount |-> q.droppedCount]]

\* SubscriberQueue.add(message, ws): the new queue object, the result object
\* and whether ws.close(1013, 'SLOW_CONSUMER') was called
QueueAdd(q, message) ==
  IF Len(q.queue) >= q.maxSize
  THEN IF q.policy = "disconnect"
       THEN [q |-> q, closes |-> TRUE,
             result |-> [success |-> FALSE, action |-> "disconnected",
                         reason |-> "SLOW_CONSUMER", droppedMessage |-> NoFrame,
                         droppedCount |-> q.droppedCount]]
       ELSE [q |-> [q EXCEPT !.queue = Append(Tail(q.queue), message),
                             !.droppedCount = q.droppedCount + 1,
                             !.totalProcessed = q.totalProcessed + 1],
             closes |-> FALSE,
             result |-> [success |-> TRUE, action |-> "dropped_oldest",
                         reason |-> NoVal, droppedMessage |-> Head(q.queue),
                         droppedCount |-> q.droppedCount + 1]]
  ELSE [q |-> [q EXCEPT !.queue = Append(q.queue, message),
                        !.totalProcessed = q.totalProcessed + 1],
        closes |-> FALSE,
        result |-> [success |-> TRUE, action |-> "added",
                    reason |-> NoVal, droppedMessage |-> NoFrame,
                    droppedCount |-> q.droppedCount]]

\* ---------------------------------------------------------------- PubSubEngine
\* The operators below work on a record s of everything a handler can change:
\*   topics, clientTopics, queues, clients, connectionCounter, ws, now, pubCount,
\*   topicLog, fed, wrote (frames written so far, per socket), dropped (the
\*   messageDropped emits so far), results (deliveryResults so far)

\* the value an engine method returns: success flag (or boolean result), error
\* code, and for publish the subscriber count and the per-subscriber outcomes
Ret(success, error) ==
  [success |-> success, error |-> error, subscribers |-> 0, deliveryResults |-> << >>]

\* PubSubEngine.sendToClient(ws, message): TRUE iff the frame was written
EngineSend(s, c, frame) ==
  IF IsOpen(s.ws, c)
  THEN [s |-> [s EXCEPT !.wrote[c] = Append(@, frame)], ok |-> TRUE]
  ELSE [s |-> s, ok |-> FALSE]

\* mutant of EngineCreateTopic: the topic is set before it is looked up, so an
\* existing topic is replaced by an empty one
EngineCreateTopicOverwrites(s, topicName) ==
  LET s1 == [s EXCEPT !.topics = MapSet(@, topicName,
                          [subscribers |-> << >>, messages |-> << >>,
                           createdAt |-> s.now])]
  IN IF topicName \in DOMAIN s.topics
     THEN [s |-> s1, ret |-> Ret(FALSE, NoVal)]
     ELSE [s |-> s1, ret |-> Ret(TRUE, NoVal)]

\* PubSubEngine.createTopic(topicName)
EngineCreateTopic(s, topicName) ==
  IF topicName \in DOMAIN s.topics
  THEN [s |-> s, ret |-> Ret(FALSE, NoVal)]
  ELSE [s |-> [s EXCEPT !.topics = MapSet(@, topicName,
                            [subscribers |-> << >>, messages |-> << >>,
                             createdAt |-> s.now])],
        ret |-> Ret(TRUE, NoVal)]

\* mutant of DropTopicFromClients: a client left without topics keeps an
\* empty topic set
DropTopicFromClientsKeepsEmpty(ct, topicName) ==
  [c \in DOMAIN ct |-> ct[c] \ {topicName}]

\* the clean-up loop of deleteTopic over clientTopics
DropTopicFromClients(ct, topicName) ==
  LET keep == { c \in DOMAIN ct : ct[c] \ {topicName} # {} }
  IN  [c \in keep |-> ct[c] \ {topicName}]

\* ws.close(1000, 'Topic deleted') for every subscriber, in Map order
RECURSIVE CloseAll(_, _, _)
CloseAll(w, subs, reason) ==
  IF subs = << >> THEN w
  ELSE CloseAll(WsClose(w, Head(subs).ws, reason), Tail(subs), reason)

\* mutant of EngineDeleteTopic: the whole topic Map is cleared
EngineDeleteTopicClearsAll(s, topicName) ==
  IF topicName \notin DOMAIN s.topics
  THEN [s |-> s, ret |-> Ret(FALSE, NoVal)]
  ELSE [s |-> [s EXCEPT !.ws = CloseAll(@, s.topics[topicName].subscribers,
                                        "Topic deleted"),
                        !.topics = EmptyMap,
                        !.clientTopics = DropTopicFromClients(@, topicName)],
        ret |-> Ret(TRUE, NoVal)]

\* mutant of EngineDeleteTopic: the clean-up loop over clientTopics is missing
EngineDeleteTopicKeepsBookkeeping(s, topicName) ==
  IF topicName \notin DOMAIN s.topics
  THEN [s |-> s, ret |-> Ret(FALSE, NoVal)]
  ELSE [s |-> [s EXCEPT !.ws = CloseAll(@, s.topics[topicName].subscribers,
                                        "Topic deleted"),
                        !.topics = MapDelete(@, topicName)],
        ret |-> Ret(TRUE, NoVal)]

\* PubSubEngine.deleteTopic(topicName)
EngineDeleteTopic(s, topicName) ==
  IF topicName \notin DOMAIN s.topics
  THEN [s |-> s, ret |-> Ret(FALSE, NoVal)]
  ELSE [s |-> [s EXCEPT !.ws = CloseAll(@, s.topics[topicName].subscribers,
                                        "Topic deleted"),
                        !.topics = MapDelete(@, topicName),
                        !.clientTopics = DropTopicFromClients(@, topicName)],
        ret |-> Ret(TRUE, NoVal)]

\* the replay loop of subscribe: sendToClient for each message, in order
RECURSIVE Replay(_, _, _, _)
Replay(s, c, topicName, msgs) ==
  IF msgs = << >> THEN s
  ELSE Replay(EngineSend(s, c, EventFrame(topicName, Head(msgs), TRUE)).s,
              c, topicName, Tail(msgs))

\* mutant of EngineSubscribe: the subscriber is registered without a
\* SubscriberQueue being created for it
EngineSubscribeNoQueue(s, topicName, clientId, c, lastN) ==
  IF topicName \notin DOMAIN s.topics
  THEN [s |-> s, ret |-> Ret(FALSE, "TOPIC_NOT_FOUND")]
  ELSE IF SubHas(s.topics[topicName].subscribers, clientId)
  THEN [s |-> s, ret |-> Ret(FALSE, "ALREADY_SUBSCRIBED")]
  ELSE
    LET s1 == [s EXCEPT
                 !.topics[topicName].subscribers =
                     Append(@, [clientId |-> clientId, ws |-> c]),
                 !.clientTopics =
                     MapSet(@, clientId,
                            (IF clientId \in DOMAIN @ THEN @[clientId] ELSE {})
                              \cup {topicName})]
        msgs == s.topics[topicName].messages
        s2 == IF lastN > 0 /\ Len(msgs) > 0
              THEN Replay(s1, c, topicName, SliceLast(msgs, lastN))
              ELSE s1
    IN [s |-> s2, ret |-> Ret(TRUE, NoVal)]

\* mutant of EngineSubscribe: the newest replayed message is also put into the
\* subscriber's queue
EngineSubscribeEnqueuesReplay(s, topicName, clientId, c, lastN) ==
  IF topicName \notin DOMAIN s.topics
  THEN [s |-> s, ret |-> Ret(FALSE, "TOPIC_NOT_FOUND")]
  ELSE IF SubHas(s.topics[topicName].subscribers, clientId)
  THEN [s |-> s, ret |-> Ret(FALSE, "ALREADY_SUBSCRIBED")]
  ELSE
    LET s1 == [s EXCEPT
                 !.queues = IF clientId \in DOMAIN @ THEN @
                            ELSE MapSet(@, clientId,
                                   NewQueue(clientId, MaxQueueSize, s.policy)),
                 !.topics[topicName].subscribers =
                     Append(@, [clientId |-> clientId, ws |-> c]),
                 !.clientTopics =
                     MapSet(@, clientId,
                            (IF clientId \in DOMAIN @ THEN @[clientId] ELSE {})
                              \cup {topicName})]
        msgs == s.topics[topicName].messages
        s2 == IF lastN > 0 /\ Len(msgs) > 0
              THEN [Replay(s1, c, topicName, SliceLast(msgs, lastN)) EXCEPT
                      !.queues[clientId] =
                         QueueAdd(@, EventFrame(topicName, msgs[Len(msgs)], TRUE)).q]
              ELSE s1
    IN [s |-> s2, ret |-> Ret(TRUE, NoVal)]

\* mutant of EngineSubscribe: a subscribe for a pair that is already registered
\* is refused, but not before the entry's socket is replaced by the caller's
EngineSubscribeTakesOver(s, topicName, clientId, c, lastN) ==
  IF topicName \notin DOMAIN s.topics
  THEN [s |-> s, ret |-> Ret(FALSE, "TOPIC_NOT_FOUND")]
  ELSE IF SubHas(s.topics[topicName].subscribers, clientId)
  THEN [s |-> [s EXCEPT !.topics[topicName].subscribers[
                           SubIndex(s.topics[topicName].subscribers, clientId, 1)].ws = c],
        ret |-> Ret(FALSE, "ALREADY_SUBSCRIBED")]
  ELSE
    LET s1 == [s EXCEPT
                 !.queues = IF clientId \in DOMAIN @ THEN @
                            ELSE MapSet(@, clientId,
                                   NewQueue(clientId, MaxQueueSize, s.policy)),
                 !.topics[topicName].subscribers =
                     Append(@, [clientId |-> clientId, ws |-> c]),
                 !.clientTopics =
                     MapSet(@, clientId,
                            (IF clientId \in DOMAIN @ THEN @[clientId] ELSE {})
                              \cup {topicName})]
        msgs == s.topics[topicName].messages
        s2 == IF lastN > 0 /\ Len(msgs) > 0
              THEN Replay(s1, c, topicName, SliceLast(msgs, lastN))
              ELSE s1
    IN [s |-> s2, ret |-> Ret(TRUE, NoVal)]

\* PubSubEngine.subscribe(topicName, clientId, ws, lastN)
EngineSubscribe(s, topicName, clientId, c, lastN) ==
  IF topicName \notin DOMAIN s.topics
  THEN [s |-> s, ret |-> Ret(FALSE, "TOPIC_NOT_FOUND")]
  ELSE IF SubHas(s.topics[topicName].subscribers, clientId)
  THEN [s |-> s, ret |-> Ret(FALSE, "ALREADY_SUBSCRIBED")]
  ELSE
    LET s1 == [s EXCEPT
                 !.queues = IF clientId \in DOMAIN @ THEN @
                            ELSE MapSet(@, clientId,
                                   NewQueue(clientId, MaxQueueSize, s.policy)),
                 !.topics[topicName].subscribers =
                     Append(@, [clientId |-> clientId, ws |-> c]),
                 !.clientTopics =
                     MapSet(@, clientId,
                            (IF clientId \in DOMAIN @ THEN @[clientId] ELSE {})
                              \cup {topicName})]
        msgs == s.topics[topicName].messages
        s2 == IF lastN > 0 /\ Len(msgs) > 0
              THEN Replay(s1, c, topicName, SliceLast(msgs, lastN))
              ELSE s1
    IN [s |-> s2, ret |-> Ret(TRUE, NoVal)]

\* mutant of EngineUnsubscribe: only the topic is looked up; whether the
\* client was among its subscribers is not
EngineUnsubscribeUnchecked(s, topicName, clientId) ==
  IF topicName \notin DOMAIN s.topics
  THEN [s |-> s, ret |-> Ret(FALSE, NoVal)]
  ELSE
    LET s1 == [s EXCEPT !.topics[topicName].subscribers = SubDelete(@, clientId)]
        s2 == IF clientId \in DOMAIN s1.clientTopics
              THEN LET rest == s1.clientTopics[clientId] \ {topicName}
                   IN IF rest = {}
                      THEN [s1 EXCEPT !.clientTopics = MapDelete(@, clientId),
                                      !.queues = MapDelete(@, clientId)]
                      ELSE [s1 EXCEPT !.clientTopics[clientId] = rest]
              ELSE s1
    IN [s |-> s2, ret |-> Ret(TRUE, NoVal)]

\* PubSubEngine.unsubscribe(topicName, clientId)
EngineUnsubscribe(s, topicName, clientId) ==
  IF topicName \notin DOMAIN s.topics
     \/ ~SubHas(s.topics[topicName].subscribers, clientId)
  THEN [s |-> s, ret |-> Ret(FALSE, NoVal)]
  ELSE
    LET s1 == [s EXCEPT !.topics[topicName].subscribers = SubDelete(@, clientId)]
        s2 == IF clientId \in DOMAIN s1.clientTopics
              THEN LET rest == s1.clientTopics[clientId] \ {topicName}
                   IN IF rest = {}
                      THEN [s1 EXCEPT !.clientTopics = MapDelete(@, clientId),
                                      !.queues = MapDelete(@, clientId)]
                      ELSE [s1 EXCEPT !.clientTopics[clientId] = rest]
              ELSE s1
    IN [s |-> s2, ret |-> Ret(TRUE, NoVal)]

\* one entry of deliveryResults
Delivery(clientId, success, action, reason, droppedCount) ==
  [clientId |-> clientId, success |-> success, action |-> action,
   reason |-> reason, droppedCount |-> droppedCount]

\* mutant of FanOutOne: a rejected add does not close the subscriber's socket
FanOutOneKeepsOpen(s, e, topicName, message) ==
  LET s0 == [s EXCEPT !.fed[e.clientId] = Append(@, message.id)]
  IN
  IF e.clientId \notin DOMAIN s0.queues
  THEN [s0 EXCEPT !.results = Append(@,
          Delivery(e.clientId, FALSE, NoVal, "SUBSCRIBER_QUEUE_NOT_FOUND", 0))]
  ELSE
    LET messageToSend == EventFrame(topicName, message, FALSE)
        r  == QueueAdd(s0.queues[e.clientId], messageToSend)
        s1 == [s0 EXCEPT !.queues[e.clientId] = r.q]
    IN IF r.result.success
       THEN LET s2 == IF r.result.action = "dropped_oldest"
                      THEN [s1 EXCEPT !.dropped = Append(@,
                              [clientId |-> e.clientId, topicName |-> topicName,
                               droppedMessage |-> r.result.droppedMessage])]
                      ELSE s1
                snd == EngineSend(s2, e.ws, messageToSend)
            IN [snd.s EXCEPT !.results = Append(@,
                  Delivery(e.clientId, snd.ok, r.result.action, NoVal,
                           r.result.droppedCount))]
       ELSE [s1 EXCEPT !.results = Append(@,
               Delivery(e.clientId, FALSE, r.result.action, r.result.reason,
                        r.result.droppedCount))]

\* one iteration of the fan-out loop of publish, for subscriber entry e
FanOutOne(s, e, topicName, message) ==
  LET s0 == [s EXCEPT !.fed[e.clientId] = Append(@, message.id)]
  IN
  IF e.clientId \notin DOMAIN s0.queues
  THEN [s0 EXCEPT !.results = Append(@,
          Delivery(e.clientId, FALSE, NoVal, "SUBSCRIBER_QUEUE_NOT_FOUND", 0))]
  ELSE
    LET messageToSend == EventFrame(topicName, message, FALSE)
        r  == QueueAdd(s0.queues[e.clientId], messageToSend)
        s1 == [s0 EXCEPT !.queues[e.clientId] = r.q,
                         !.ws = IF r.closes
                                THEN WsClose(@, e.ws, "SLOW_CONSUMER") ELSE @]
    IN IF r.result.success
       THEN LET s2 == IF r.result.action = "dropped_oldest"
                      THEN [s1 EXCEPT !.dropped = Append(@,
                              [clientId |-> e.clientId, topicName |-> topicName,
                               droppedMessage |-> r.result.droppedMessage])]
                      ELSE s1
                snd == EngineSend(s2, e.ws, messageToSend)
            IN [snd.s EXCEPT !.results = Append(@,
                  Delivery(e.clientId, snd.ok, r.result.action, NoVal,
                           r.result.droppedCount))]
       ELSE [s1 EXCEPT !.results = Append(@,
               Delivery(e.clientId, FALSE, r.result.action, r.result.reason,
                        r.result.droppedCount))]

\* mutant of FanOut: the loop ends at the first subscriber whose delivery fails
RECURSIVE FanOutStopsAtFailure(_, _, _, _)
FanOutStopsAtFailure(s, subs, topicName, message) ==
  IF subs = << >> THEN s
  ELSE LET s1 == FanOutOne(s, Head(subs), topicName, message)
       IN IF s1.results[Len(s1.results)].success
          THEN FanOutStopsAtFailure(s1, Tail(subs), topicName, message)
          ELSE s1

\* the fan-out loop: topic.subscribers in Map (insertion) order
RECURSIVE FanOut(_, _, _, _)
FanOut(s, subs, topicName, message) ==
  IF subs = << >> THEN s
  ELSE FanOut(FanOutOne(s, Head(subs), topicName, message),
              Tail(subs), topicName, message)

\* mutant of RingAppend: the overflow test is off by one (>= instead of >)
RingAppendOffByOne(msgs, message) ==
  LET pushed == Append(msgs, message)
  IN IF Len(pushed) >= MaxMessagesPerTopic THEN Tail(pushed) ELSE pushed

\* topic.messages.push(message) followed by the shift on overflow
RingAppend(msgs, message) ==
  LET pushed == Append(msgs, message)
  IN IF Len(pushed) > MaxMessagesPerTopic THEN Tail(pushed) ELSE pushed

\* mutant of EnginePublish: the fan-out loop misses the first subscriber
EnginePublishSkipsFirst(s, topicName, message) ==
  IF topicName \notin DOMAIN s.topics
  THEN [s |-> s, ret |-> Ret(FALSE, "TOPIC_NOT_FOUND")]
  ELSE IF message.id = 0 \/ message.payload = NoVal
  THEN [s |-> s, ret |-> Ret(FALSE, "INVALID_MESSAGE")]
  ELSE
    LET stamped == IF message.ts = 0 THEN [message EXCEPT !.ts = s.now] ELSE message
        s1 == [s EXCEPT !.topics[topicName].messages = RingAppend(@, stamped),
                        !.pubCount = @ + 1,
                        !.topicLog[topicName] = Append(@, stamped.id),
                        !.results = << >>]
        subs == s1.topics[topicName].subscribers
        s2 == FanOut(s1, IF subs = << >> THEN subs ELSE Tail(subs), topicName, stamped)
    IN [s |-> s2,
        ret |-> [success |-> TRUE, error |-> NoVal,
                 subscribers |-> Len(s2.topics[topicName].subscribers),
                 deliveryResults |-> s2.results]]

\* mutant of EnginePublish: the fan-out loop also runs over the subscribers of
\* another topic
EnginePublishAllTopics(s, topicName, message) ==
  IF topicName \notin DOMAIN s.topics
  THEN [s |-> s, ret |-> Ret(FALSE, "TOPIC_NOT_FOUND")]
  ELSE IF message.id = 0 \/ message.payload = NoVal
  THEN [s |-> s, ret |-> Ret(FALSE, "INVALID_MESSAGE")]
  ELSE
    LET stamped == IF message.ts = 0 THEN [message EXCEPT !.ts = s.now] ELSE message
        s1 == [s EXCEPT !.topics[topicName].messages = RingAppend(@, stamped),
                        !.pubCount = @ + 1,
                        !.topicLog[topicName] = Append(@, stamped.id),
                        !.results = << >>]
        others == DOMAIN s1.topics \ {topicName}
        subs == s1.topics[topicName].subscribers \o
                  (IF others = {} THEN << >>
                   ELSE s1.topics[CHOOSE b \in others : TRUE].subscribers)
        s2 == FanOut(s1, subs, topicName, stamped)
    IN [s |-> s2,
        ret |-> [success |-> TRUE, error |-> NoVal,
                 subscribers |-> Len(s2.topics[topicName].subscribers),
                 deliveryResults |-> s2.results]]

\* mutant of EnginePublish: the message is validated before the topic is
\* looked up
EnginePublishMessageFirst(s, topicName, message) ==
  IF message.id = 0 \/ message.payload = NoVal
  THEN [s |-> s, ret |-> Ret(FALSE, "INVALID_MESSAGE")]
  ELSE IF topicName \notin DOMAIN s.topics
  THEN [s |-> s, ret |-> Ret(FALSE, "TOPIC_NOT_FOUND")]
  ELSE
    LET stamped == IF message.ts = 0 THEN [message EXCEPT !.ts = s.now] ELSE message
        s1 == [s EXCEPT !.topics[topicName].messages = RingAppend(@, stamped),
                        !.pubCount = @ + 1,
                        !.topicLog[topicName] = Append(@, stamped.id),
                        !.results = << >>]
        s2 == FanOut(s1, s1.topics[topicName].subscribers, topicName, stamped)
    IN [s |-> s2,
        ret |-> [success |-> TRUE, error |-> NoVal,
                 subscribers |-> Len(s2.topics[topicName].subscribers),
                 deliveryResults |-> s2.results]]

\* PubSubEngine.publish(topicName, message)
EnginePublish(s, topicName, message) ==
  IF topicName \notin DOMAIN s.topics
  THEN [s |-> s, ret |-> Ret(FALSE, "TOPIC_NOT_FOUND")]
  ELSE IF message.id = 0 \/ message.payload = NoVal
  THEN [s |-> s, ret |-> Ret(FALSE, "INVALID_MESSAGE")]
  ELSE
    LET stamped == IF message.ts = 0 THEN [message EXCEPT !.ts = s.now] ELSE message
        s1 == [s EXCEPT !.topics[topicName].messages = RingAppend(@, stamped),
                        !.pubCount = @ + 1,
                        !.topicLog[topicName] = Append(@, stamped.id),
                        !.results = << >>]
        s2 == FanOut(s1, s1.topics[topicName].subscribers, topicName, stamped)
    IN [s |-> s2,
        ret |-> [success |-> TRUE, error |-> NoVal,
                 subscribers |-> Len(s2.topics[topicName].subscribers),
                 deliveryResults |-> s2.results]]

\* PubSubEngine.getTopic(topicName): a snapshot, here of an existing topic
GetTopic(s, topicName) ==
  [name |-> topicName,
   subscribers |-> Len(s.topics[topicName].subscribers),
   messages |-> Len(s.topics[topicName].messages),
   createdAt |-> s.topics[topicName].createdAt]

\* ---------------------------------------------------------------- WebSocketHandler
\* mutant of HandlerSend: the readyState test is missing
HandlerSendUnchecked(s, c, frame) ==
  [s EXCEPT !.wrote[c] = Append(@, frame)]

\* WebSocketHandler.sendToClient(ws, message): written only to an OPEN socket
HandlerSend(s, c, frame) ==
  IF IsOpen(s.ws, c) THEN [s EXCEPT !.wrote[c] = Append(@, frame)] ELSE s

\* WebSocketHandler.sendError(clientId, errorCode, message)
SendError(s, c, code) ==
  IF c \notin DOMAIN s.clients \/ ~IsOpen(s.ws, c) THEN s
  ELSE HandlerSend(s, c, Frame("error", code))

\* WebSocketHandler.validateMessage(message), for a parsed JSON object
ValidateMessage(m) ==
  /\ m.type \in {"subscribe", "unsubscribe", "publish", "ping"}
  /\ (m.type \in {"subscribe", "unsubscribe", "publish"} => m.topic # NoVal)

\* client.clientProvidedId || clientId
PubsubClientId(s, c) ==
  IF s.clients[c].clientProvidedId # NoVal THEN s.clients[c].clientProvidedId ELSE c

NoCall(s) == [s |-> s, called |-> FALSE, ret |-> Ret(FALSE, NoVal)]

\* WebSocketHandler.handleSubscribe(clientId, topic, lastN, requestId)
HandleSubscribe(s, c, topic, lastN) ==
  IF topic = NoVal THEN NoCall(SendError(s, c, "BAD_REQUEST"))
  ELSE IF c \notin DOMAIN s.clients THEN NoCall(SendError(s, c, "UNAUTHORIZED"))
  ELSE
    LET r == EngineSubscribe(s, topic, PubsubClientId(s, c), c, lastN)
    IN IF r.ret.success
       THEN [s |-> HandlerSend([r.s EXCEPT !.clients[c].topics = @ \cup {topic}],
                               c, Frame("ack", NoVal)),
             called |-> TRUE, ret |-> r.ret]
       ELSE [s |-> SendError(r.s, c, r.ret.error), called |-> TRUE, ret |-> r.ret]

\* mutant of HandleUnsubscribe: the request is acknowledged but the engine is
\* not told, so the subscriber stays registered
HandleUnsubscribeAckOnly(s, c, topic) ==
  IF topic = NoVal THEN NoCall(SendError(s, c, "BAD_REQUEST"))
  ELSE IF c \notin DOMAIN s.clients THEN NoCall(SendError(s, c, "UNAUTHORIZED"))
  ELSE [s |-> HandlerSend([s EXCEPT !.clients[c].topics = @ \ {topic}],
                          c, Frame("ack", NoVal)),
        called |-> TRUE, ret |-> Ret(TRUE, NoVal)]

\* WebSocketHandler.handleUnsubscribe(clientId, topic, requestId)
HandleUnsubscribe(s, c, topic) ==
  IF topic = NoVal THEN NoCall(SendError(s, c, "BAD_REQUEST"))
  ELSE IF c \notin DOMAIN s.clients THEN NoCall(SendError(s, c, "UNAUTHORIZED"))
  ELSE
    LET r == EngineUnsubscribe(s, topic, PubsubClientId(s, c))
    IN IF r.ret.success
       THEN [s |-> HandlerSend([r.s EXCEPT !.clients[c].topics = @ \ {topic}],
                               c, Frame("ack", NoVal)),
             called |-> TRUE, ret |-> r.ret]
       ELSE [s |-> SendError(r.s, c, "TOPIC_NOT_FOUND"),
             called |-> TRUE, ret |-> r.ret]

\* handlePublish without the return after its BAD_REQUEST for a message that
\* lacks id or payload: it goes on to call the engine
HandlePublishFallsThrough(s, c, topic, message) ==
  IF topic = NoVal THEN NoCall(SendError(s, c, "BAD_REQUEST"))
  ELSE
    LET s0 == IF message.id = 0 \/ message.payload = NoVal
              THEN SendError(s, c, "BAD_REQUEST") ELSE s
        r  == EnginePublish(s0, topic, message)
    IN IF r.ret.success
       THEN [s |-> IF c \in DOMAIN r.s.clients
                   THEN HandlerSend(r.s, c, Frame("ack", NoVal))
                   ELSE SendError(r.s, c, "INTERNAL"),
             called |-> TRUE, ret |-> r.ret]
       ELSE [s |-> SendError(r.s, c, r.ret.error), called |-> TRUE, ret |-> r.ret]

\* WebSocketHandler.handlePublish(clientId, topic, message, requestId); reading
\* .ws of a missing client record throws, which handleMessage turns into INTERNAL
HandlePublish(s, c, topic, message) ==
  IF topic = NoVal THEN NoCall(SendError(s, c, "BAD_REQUEST"))
  ELSE IF message.id = 0 \/ message.payload = NoVal
  THEN NoCall(SendError(s, c, "BAD_REQUEST"))
  ELSE
    LET r == EnginePublish(s, topic, message)
    IN IF r.ret.success
       THEN [s |-> IF c \in DOMAIN r.s.clients
                   THEN HandlerSend(r.s, c, Frame("ack", NoVal))
                   ELSE SendError(r.s, c, "INTERNAL"),
             called |-> TRUE, ret |-> r.ret]
       ELSE [s |-> SendError(r.s, c, r.ret.error), called |-> TRUE, ret |-> r.ret]

\* WebSocketHandler.handlePing(clientId, requestId)
HandlePing(s, c) ==
  IF c \notin DOMAIN s.clients THEN NoCall(SendError(s, c, "UNAUTHORIZED"))
  ELSE NoCall(HandlerSend(s, c, Frame("pong", NoVal)))

\* WebSocketHandler.handleMessage(clientId, data); m.type = "badjson" stands
\* for data that JSON.parse rejects
OnMessage(s, c, m) ==
  IF m.type = "badjson" THEN NoCall(SendError(s, c, "BAD_REQUEST"))
  ELSE IF ~ValidateMessage(m) THEN NoCall(SendError(s, c, "BAD_REQUEST"))
  ELSE IF m.type \in {"subscribe", "unsubscribe", "publish"} /\ m.client_id = NoVal
  THEN NoCall(SendError(s, c, "BAD_REQUEST"))
  ELSE
    LET s1 == IF c \in DOMAIN s.clients /\ m.client_id # NoVal
              THEN [s EXCEPT !.clients[c].clientProvidedId = m.client_id]
              ELSE s
    IN CASE m.type = "subscribe"   -> HandleSubscribe(s1, c, m.topic, m.last_n)
         [] m.type = "unsubscribe" -> HandleUnsubscribe(s1, c, m.topic)
         [] m.type = "publish"     -> HandlePublish(s1, c, m.topic, m.message)
         [] m.type = "ping"        -> HandlePing(s1, c)

\* the unsubscribe loop of handleClose over client.topics; the calls touch
\* different topics, so the order of the Set does not change the outcome
RECURSIVE UnsubscribeAll(_, _, _)
UnsubscribeAll(s, ts, clientId) ==
  IF ts = {} THEN s
  ELSE LET t == CHOOSE x \in ts : TRUE
       IN UnsubscribeAll(EngineUnsubscribe(s, t, clientId).s, ts \ {t}, clientId)

\* PubSubEngine.disconnectClient(clientId): unsubscribe is called for every
\* topic of the client's clientTopics set
EngineDisconnectClient(s, clientId) ==
  IF clientId \notin DOMAIN s.clientTopics
  THEN [s |-> s, ret |-> Ret(FALSE, NoVal)]
  ELSE [s |-> UnsubscribeAll(s, s.clientTopics[clientId], clientId),
        ret |-> Ret(TRUE, NoVal)]

\* WebSocketHandler.handleClose(clientId, code, reason)
OnClose(s, c) ==
  IF c \notin DOMAIN s.clients THEN s
  ELSE LET s1 == UnsubscribeAll(s, s.clients[c].topics, PubsubClientId(s, c))
       IN [s1 EXCEPT !.clients = MapDelete(@, c),
                     !.connectionCounter = @ - 1]

\* WebSocketHandler.handleConnection(ws, req)
OnConnection(s, c) ==
  HandlerSend([s EXCEPT !.clients = MapSet(@, c,
                           [topics |-> {}, clientProvidedId |-> NoVal]),
                        !.connectionCounter = @ + 1],
              c, Frame("info", NoVal))

\* ---------------------------------------------------------------- actions
\* the state a handler starts from
Cur ==
  [topics |-> topics, clientTopics |-> clientTopics, queues |-> subscriberQueues,
   policy |-> backpressurePolicy, clients |-> clients,
   connectionCounter |-> connectionCounter, ws |-> ws,
   now |-> now, pubCount |-> pubCount, topicLog |-> topicLog, fed |-> fed,
   wrote |-> [c \in Conns |-> << >>], dropped |-> << >>, results |-> << >>]

\* clientId is registered as a subscriber of some topic
HasSubscription(tps, cid) ==
  \E t \in DOMAIN tps : SubHas(tps[t].subscribers, cid)

\* the state a handler leaves behind; the frames it wrote have left the process
Commit(s) ==
  /\ topics' = s.topics
  /\ clientTopics' = s.clientTopics
  /\ subscriberQueues' = s.queues
  /\ clients' = s.clients
  /\ connectionCounter' = s.connectionCounter
  /\ ws' = s.ws
  /\ now' = s.now
  /\ pubCount' = s.pubCount
  /\ topicLog' = [t \in Topics |-> IF t \in DOMAIN s.topics THEN s.topicLog[t] ELSE << >>]
  /\ fed' = [c \in ClientIds |-> IF HasSubscription(s.topics, c) THEN s.fed[c] ELSE << >>]
  /\ UNCHANGED << backpressurePolicy, heartbeatTimer, shutdownPc, openAtShutdown, beatAt >>

\* the protocol messages the client behind connection c may send in the current
\* state, in an environment e: the topic names in use (e.topics), the
\* connections that are made (e.conns), the client_id values each one declares
\* (e.ids), the topics each one names in subscribe/unsubscribe (e.subs) and
\* the topics each one publishes to (e.pubs); e.deletes are the topics that
\* DELETE /topics/:name is called for
Requests(c, e) ==
  LET base == [type |-> "ping", topic |-> NoVal, client_id |-> NoVal,
               message |-> NoMsg, last_n |-> 0]
      anyT == CHOOSE t \in e.topics : TRUE
      anyI == CHOOSE i \in e.ids[c] : TRUE
      good == IF pubCount < MaxPublishes
              THEN {[id |-> pubCount + 1, payload |-> "p", ts |-> 0]} ELSE {}
      bad  == {NoMsg, [id |-> pubCount + 1, payload |-> NoVal, ts |-> 0],
               [id |-> 0, payload |-> "p", ts |-> 0]}
      \* a request without its topic, and one without its client_id
      malformed(type) == { [base EXCEPT !.type = type, !.client_id = anyI],
                           [base EXCEPT !.type = type, !.topic = anyT] }
  IN    { [base EXCEPT !.type = "subscribe", !.topic = t, !.client_id = i, !.last_n = n] :
            t \in e.subs[c], i \in e.ids[c], n \in {0, 1, MaxLastN} }
   \cup { [base EXCEPT !.type = "unsubscribe", !.topic = t, !.client_id = i] :
            t \in e.subs[c], i \in e.ids[c] }
   \cup { [base EXCEPT !.type = "publish", !.topic = t, !.client_id = i, !.message = g] :
            t \in e.pubs[c], i \in e.ids[c], g \in good }
   \cup { [base EXCEPT !.type = "publish", !.topic = anyT, !.client_id = anyI, !.message = g] :
            g \in bad }
   \cup malformed("subscribe") \cup malformed("unsubscribe") \cup malformed("publish")
   \cup { [base EXCEPT !.client_id = i] : i \in e.ids[c] \cup {NoVal} }
   \cup { [base EXCEPT !.type = "bogus"], [base EXCEPT !.type = "badjson"] }

\* wss.on('connection') run on the current state
Connected(c) == OnConnection([Cur EXCEPT !.ws[c].readyState = "OPEN"], c)

\* ws.on('message') run on the current state
Handled(c, m) == OnMessage(Cur, c, m)

\* ws.on('close') run on the current state
Closed(c) == OnClose([Cur EXCEPT !.ws[c].readyState = "CLOSED"], c)

\* TopicRoutes.createTopic run on the current state: POST /topics
RouteCreateTopic(t) ==
  IF t \in DOMAIN topics
  THEN [s |-> Cur, called |-> FALSE, ret |-> Ret(FALSE, "TOPIC_EXISTS")]
  ELSE LET r == EngineCreateTopic(Cur, t)
       IN [s |-> [r.s EXCEPT !.now = @ + 1], called |-> TRUE,
           ret |-> IF r.ret.success THEN r.ret ELSE Ret(FALSE, "INTERNAL")]

\* mutant of RouteDeleteTopic: the topic is looked at after the deletion, when
\* nothing is left to count
RouteDeleteTopicCountsAfter(t) ==
  IF t \notin DOMAIN topics
  THEN [s |-> Cur, called |-> FALSE, ret |-> Ret(FALSE, "TOPIC_NOT_FOUND"),
        counts |-> [subscribers_disconnected |-> 0, messages_lost |-> 0]]
  ELSE LET r == EngineDeleteTopic(Cur, t)
       IN [s |-> r.s, called |-> TRUE,
           ret |-> IF r.ret.success THEN r.ret ELSE Ret(FALSE, "INTERNAL"),
           counts |-> [subscribers_disconnected |-> 0, messages_lost |-> 0]]

\* TopicRoutes.deleteTopic run on the current state: DELETE /topics/:name;
\* counts are the subscribers_disconnected and messages_lost of the response
RouteDeleteTopic(t) ==
  IF t \notin DOMAIN topics
  THEN [s |-> Cur, called |-> FALSE, ret |-> Ret(FALSE, "TOPIC_NOT_FOUND"),
        counts |-> [subscribers_disconnected |-> 0, messages_lost |-> 0]]
  ELSE LET info == GetTopic(Cur, t)
           r == EngineDeleteTopic(Cur, t)
       IN [s |-> r.s, called |-> TRUE,
           ret |-> IF r.ret.success
                   THEN [r.ret EXCEPT !.subscribers = info.subscribers]
                   ELSE Ret(FALSE, "INTERNAL"),
           counts |-> [subscribers_disconnected |-> info.subscribers,
                       messages_lost |-> info.messages]]

\* the WebSocket server accepts a connection
Connect(c) ==
  /\ ws[c].readyState = "NEW"
  /\ Commit(Connected(c))

\* a frame arrives; frames still arrive while the closing handshake runs
HandleMessage(c, m) ==
  /\ ws[c].readyState \in {"OPEN", "CLOSING"}
  /\ Commit(Handled(c, m).s)

\* the socket is closed, by the peer or after ws.close()
HandleClose(c) ==
  /\ ws[c].readyState \in {"OPEN", "CLOSING"}
  /\ Commit(Closed(c))

CreateTopic(t) ==
  /\ now <= MaxCreates
  /\ Commit(RouteCreateTopic(t).s)

DeleteTopic(t) ==
  Commit(RouteDeleteTopic(t).s)

Init ==
  /\ topics = EmptyMap
  /\ clientTopics = EmptyMap
  /\ subscriberQueues = EmptyMap
  /\ backpressurePolicy \in Policies
  /\ heartbeatTimer = TRUE
  /\ clients = EmptyMap
  /\ connectionCounter = 0
  /\ ws = [c \in Conns |-> [readyState |-> "NEW", closeReason |-> NoVal]]
  /\ now = 1
  /\ pubCount = 0
  /\ topicLog = [t \in Topics |-> << >>]
  /\ fed = [c \in ClientIds |-> << >>]
  /\ shutdownPc = "running"
  /\ openAtShutdown = {}
  /\ beatAt = "none"

NextIn(e) ==
  \/ \E c \in e.conns : Connect(c)
  \/ \E c \in e.conns : \E m \in Requests(c, e) : HandleMessage(c, m)
  \/ \E c \in e.conns : HandleClose(c)
  \/ \E t \in e.topics : CreateTopic(t)
  \/ \E t \in e.deletes : DeleteTopic(t)

\* ---------------------------------------------------------------- environments
\* two clients with an identity of their own each, on one topic
EnvFan ==
  [topics |-> {"A"}, conns |-> Conns,
   ids |-> [c \in Conns |-> IF c = "k1" THEN {"x"} ELSE {"y"}],
   subs |-> [c \in Conns |-> {"A"}], pubs |-> [c \in Conns |-> {"A"}], deletes |-> {"A"}]

\* one connection whose messages carry changing client_id values
EnvRebind ==
  [topics |-> {"A"}, conns |-> {"k1"},
   ids |-> [c \in Conns |-> ClientIds],
   subs |-> [c \in Conns |-> {"A"}], pubs |-> [c \in Conns |-> {"A"}], deletes |-> {"A"}]

\* two connections that declare the same client_id
EnvSameId ==
  [topics |-> {"A"}, conns |-> Conns,
   ids |-> [c \in Conns |-> {"x"}],
   subs |-> [c \in Conns |-> {"A"}], pubs |-> [c \in Conns |-> {"A"}], deletes |-> {"A"}]

\* two topics: k1 subscribes to A, k2 to B, k1 publishes to either, B is
\* deleted and created again
EnvTopics ==
  [topics |-> Topics, conns |-> Conns,
   ids |-> [c \in Conns |-> IF c = "k1" THEN {"x"} ELSE {"y"}],
   subs |-> [c \in Conns |-> IF c = "k1" THEN {"A"} ELSE {"B"}],
   pubs |-> [c \in Conns |-> IF c = "k1" THEN Topics ELSE {}], deletes |-> {"B"}]

\* one client subscribed to both topics and publishing to either; B is
\* deleted and created again
EnvBothTopics ==
  [topics |-> Topics, conns |-> {"k1"},
   ids |-> [c \in Conns |-> {"x"}],
   subs |-> [c \in Conns |-> Topics], pubs |-> [c \in Conns |-> Topics],
   deletes |-> {"B"}]

\* ---------------------------------------------------------------- heartbeat and shutdown
\* WebSocketHandler.broadcast(message): sendToClient for every client record
RECURSIVE Broadcast(_, _, _)
Broadcast(s, cs, frame) ==
  IF cs = {} THEN s
  ELSE LET c == CHOOSE x \in cs : TRUE
       IN Broadcast(HandlerSend(s, c, frame), cs \ {c}, frame)

\* the 'heartbeat' listener of setupPubSubEvents run on the current state
HeartbeatTick == Broadcast(Cur, DOMAIN clients, Frame("info", "heartbeat"))

\* the close loop of WebSocketHandler.shutdown over the client records
RECURSIVE CloseClients(_, _)
CloseClients(w, cs) ==
  IF cs = {} THEN w
  ELSE LET c == CHOOSE x \in cs : TRUE
       IN CloseClients(WsClose(w, c, "Server shutdown"), cs \ {c})

\* mutant of HandlerShutdown: the client records are cleared before the close
\* loop runs over them
HandlerShutdownClearsFirst(s) ==
  [s EXCEPT !.clients = EmptyMap,
            !.connectionCounter = 0]

\* WebSocketHandler.shutdown()
HandlerShutdown(s) ==
  [s EXCEPT !.ws = CloseClients(@, DOMAIN s.clients),
            !.clients = EmptyMap,
            !.connectionCounter = 0]

\* mutant of StopHeartbeat: the interval is not cleared
StopHeartbeatKeepsTimer(timer) == timer

\* PubSubEngine.stopHeartbeat(): clearInterval and heartbeatTimer = null;
\* the value is whether heartbeatTimer is set afterwards
StopHeartbeat(timer) == FALSE

\* the disconnectClient loop of PubSubEngine.shutdown over clientTopics
RECURSIVE DisconnectAll(_, _)
DisconnectAll(s, ids) ==
  IF ids = {} THEN s
  ELSE LET i == CHOOSE x \in ids : TRUE
       IN DisconnectAll(EngineDisconnectClient(s, i).s, ids \ {i})

\* PubSubEngine.shutdown(), after its stopHeartbeat()
EngineShutdown(s) ==
  [DisconnectAll(s, DOMAIN s.clientTopics) EXCEPT !.topics = EmptyMap,
                                                  !.clientTopics = EmptyMap]

\* the setInterval callback of startHeartbeat fires and emits 'heartbeat'; a
\* timer callback is a task of its own: it runs only while the timer is set
\* and never between the two steps of the shutdown handler, which resumes as
\* a microtask. That the process exits is not relied on to silence the timer.
Heartbeat ==
  /\ heartbeatTimer
  /\ shutdownPc # "wsHandler"
  /\ HeartbeatTick.ws = ws
  /\ beatAt' = shutdownPc
  /\ UNCHANGED << topics, clientTopics, subscriberQueues, backpressurePolicy,
                  heartbeatTimer, clients, connectionCounter, ws, now, pubCount,
                  topicLog, fed, shutdownPc, openAtShutdown >>

\* a shutdown signal arrives: the handler sets isShuttingDown and runs up to
\* its first await, that is, through wsHandler.shutdown()
ShutdownWebSocket ==
  /\ shutdownPc = "running"
  /\ shutdownPc' = "wsHandler"
  /\ openAtShutdown' = { c \in Conns : IsOpen(ws, c) }
  /\ LET s1 == HandlerShutdown(Cur)
     IN /\ ws' = s1.ws
        /\ clients' = s1.clients
        /\ connectionCounter' = s1.connectionCounter
  /\ UNCHANGED << topics, clientTopics, subscriberQueues, backpressurePolicy,
                  heartbeatTimer, now, pubCount, topicLog, fed, beatAt >>

\* the handler continues after the await, as a microtask that no event can
\* precede: pubsubEngine.shutdown() with its stopHeartbeat(), then the exit
ShutdownEngine ==
  /\ shutdownPc = "wsHandler"
  /\ shutdownPc' = "exit"
  /\ heartbeatTimer' = StopHeartbeat(heartbeatTimer)
  /\ LET s1 == EngineShutdown(Cur)
     IN /\ topics' = s1.topics
        /\ clientTopics' = s1.clientTopics
        /\ subscriberQueues' = s1.queues
  /\ topicLog' = [t \in Topics |-> << >>]
  /\ fed' = [c \in ClientIds |-> << >>]
  /\ UNCHANGED << backpressurePolicy, clients, connectionCounter, ws, now,
                  pubCount, openAtShutdown, beatAt >>

\* the server with its timer and its shutdown handler; once the handler has
\* started, no connection, message, close or REST task is served any more
NextLifecycle ==
  \/ shutdownPc = "running" /\ NextIn(EnvFan)
  \/ Heartbeat
  \/ ShutdownWebSocket
  \/ ShutdownEngine

Next == NextIn(EnvFan)

NextRebind == NextIn(EnvRebind)

NextSameId == NextIn(EnvSameId)

NextTopics == NextIn(EnvTopics)

Spec == Init /\ [][Next]_vars

SpecRebind == Init /\ [][NextRebind]_vars

SpecSameId == Init /\ [][NextSameId]_vars

SpecTopics == Init /\ [][NextTopics]_vars

SpecLifecycle == Init /\ [][NextLifecycle]_vars

NextBothTopics == NextIn(EnvBothTopics)

SpecBothTopics == Init /\ [][NextBothTopics]_vars

\* ---------------------------------------------------------------- properties
\* A property of a handler is stated over every reachable state and every
\* request that can arrive in it: the handler is run on the state (Handled,
\* Closed) and the record it returns holds the state it leaves behind, the
\* frames it wrote per connection (wrote), the messageDropped emits (dropped)
\* and, with ret, what the engine returned.
\* vocabulary of the properties
Min(a, b) == IF a < b THEN a ELSE b

Max(a, b) == IF a > b THEN a ELSE b

\* the last k elements of a sequence
LastK(q, k) == [i \in 1..Min(k, Len(q)) |-> q[Len(q) - Min(k, Len(q)) + i]]

\* the message ids of a ring buffer, oldest first
MsgIds(msgs) == [i \in 1..Len(msgs) |-> msgs[i].id]

IsEvent(f) == f.type = "event"

Events(fs) == SelectSeq(fs, IsEvent)

\* the connections a frame can arrive from
Senders == { c \in Conns : ws[c].readyState \in {"OPEN", "CLOSING"} }

\* every request a connection can send: any topic, any client_id
EnvAll ==
  [topics |-> Topics, conns |-> Conns,
   ids |-> [c \in Conns |-> ClientIds], subs |-> [c \in Conns |-> Topics],
   pubs |-> [c \in Conns |-> Topics], deletes |-> Topics]

\* the requests of the given types that connection c can send in environment e
Sent(c, e, types) == { m \in Requests(c, e) : m.type \in types }

Publishes(c) == Sent(c, EnvAll, {"publish"})

Subscribes(c) == Sent(c, EnvAll, {"subscribe"})

\* number of live (not replayed) event frames for message id among frames fs
LiveOf(fs, id) ==
  Cardinality({ i \in 1..Len(fs) :
                  IsEvent(fs[i]) /\ ~fs[i].replay /\ fs[i].message.id = id })

\* number of entries of a subscriber queue that hold message id
Copies(q, id) ==
  Cardinality({ i \in 1..Len(q.queue) : q.queue[i].message.id = id })

\* the add that a publish makes to queue q is rejected
Rejects(q) == q.policy = "disconnect" /\ Len(q.queue) >= q.maxSize

\* subscriber entry i of subs is not refused by backpressure in queues qs
Admitted(subs, qs, i) ==
  ~(subs[i].clientId \in DOMAIN qs /\ Rejects(qs[subs[i].clientId]))

\* C1: whenever a publish of m to topic T is processed, with S the subscribers
\* of T at that moment: every member of S that backpressure does not refuse has
\* m in its queue exactly once afterwards, and its connection is written one
\* live event for m per such member it carries (none once the socket is no
\* longer open); no queue of a client outside S changes and no connection
\* outside S is written an event.
C1_FanOut ==
  \A c \in Senders : \A m \in Publishes(c) :
    LET r == Handled(c, m)
    IN r.ret.success =>
         LET S  == topics[m.topic].subscribers
             id == m.message.id
         IN /\ \A i \in 1..Len(S) :
                  Admitted(S, subscriberQueues, i) =>
                    /\ S[i].clientId \in DOMAIN r.s.queues
                    /\ Copies(r.s.queues[S[i].clientId], id) = 1
            /\ \A k \in Conns :
                  LET due == Cardinality({ i \in 1..Len(S) :
                               S[i].ws = k /\ Admitted(S, subscriberQueues, i) })
                  IN /\ LiveOf(r.s.wrote[k], id) <= due
                     /\ IsOpen(r.s.ws, k) => LiveOf(r.s.wrote[k], id) = due
                     /\ Len(Events(r.s.wrote[k])) = LiveOf(r.s.wrote[k], id)
            /\ DOMAIN r.s.queues = DOMAIN subscriberQueues
            /\ \A cid \in DOMAIN subscriberQueues \ SubIds(S) :
                  r.s.queues[cid] = subscriberQueues[cid]
            /\ \A k \in Conns \ SubConns(S) : Events(r.s.wrote[k]) = << >>

\* a message has just been fanned out to two subscribers on open connections,
\* and sits at the tail of both queues
C1_Witness ==
  \E t \in DOMAIN topics :
    LET S == topics[t].subscribers
    IN /\ Len(S) = 2
       /\ pubCount > 0
       /\ \A i \in 1..Len(S) :
             /\ IsOpen(ws, S[i].ws)
             /\ S[i].clientId \in DOMAIN subscriberQueues
             /\ LET q == subscriberQueues[S[i].clientId].queue
                IN /\ q # << >>
                   /\ q[Len(q)].message.id = pubCount
                   /\ q[Len(q)].topic = t
                   /\ fed[S[i].clientId][Len(fed[S[i].clientId])] = pubCount

\* C2: whenever a publish to topic a is processed, a connection that is
\* registered in another topic but not in a is written no event, the queue of a
\* client registered only in other topics is left as it was, every event that
\* is written carries topic a, and the other topics are unchanged.
C2_TopicIsolation ==
  \A c \in Senders : \A m \in Publishes(c) :
    LET r == Handled(c, m)
    IN r.ret.success =>
         LET a == m.topic
             S == topics[a].subscribers
         IN /\ \A b \in DOMAIN topics \ {a} :
                  /\ r.s.topics[b] = topics[b]
                  /\ \A j \in 1..Len(topics[b].subscribers) :
                        LET e == topics[b].subscribers[j]
                        IN /\ e.ws \notin SubConns(S) => Events(r.s.wrote[e.ws]) = << >>
                           /\ e.clientId \notin SubIds(S) =>
                                 /\ e.clientId \in DOMAIN r.s.queues
                                 /\ r.s.queues[e.clientId] = subscriberQueues[e.clientId]
            /\ \A k \in Conns :
                  \A i \in 1..Len(r.s.wrote[k]) :
                    IsEvent(r.s.wrote[k][i]) => r.s.wrote[k][i].topic = a

\* a message published to one topic sits in the queue of that topic's
\* subscriber while another topic has a subscriber, on an open connection of
\* its own, whose queue does not hold it
C2_Witness ==
  \E a \in DOMAIN topics : \E b \in DOMAIN topics \ {a} :
    /\ pubCount > 0
    /\ topicLog[a] # << >>
    /\ topicLog[a][Len(topicLog[a])] = pubCount
    /\ \E i \in 1..Len(topics[a].subscribers) :
          LET q == subscriberQueues[topics[a].subscribers[i].clientId].queue
          IN q # << >> /\ q[Len(q)].message.id = pubCount /\ q[Len(q)].topic = a
    /\ \E j \in 1..Len(topics[b].subscribers) :
          LET e == topics[b].subscribers[j]
          IN /\ e.ws \notin SubConns(topics[a].subscribers)
             /\ e.clientId \notin SubIds(topics[a].subscribers)
             /\ IsOpen(ws, e.ws)
             /\ Copies(subscriberQueues[e.clientId], pubCount) = 0

\* number of subscriber entries of subs that are bound to connection k
BoundTo(subs, k) == Cardinality({ i \in 1..Len(subs) : subs[i].ws = k })

\* C3: for a publish p by one client's connection and a subscribe or unsubscribe
\* q by the other client's on the same topic, in either order of processing: a client whose
\* subscribe is processed after p has no copy of p's message in its queue and its
\* connection is written no live event for it; a client whose subscribe is
\* processed before p gets it once; a client whose unsubscribe is processed
\* before p gets neither a queue entry nor an event; and in every order no
\* queue holds the message twice and no connection is written more live events
\* for it than it has subscriber entries when p is processed.
C3_SerializedInterleavings ==
  \A c1 \in Senders : \A c2 \in Senders \ {c1} :
    \A p \in Sent(c1, EnvFan, {"publish"}) :
      \A q \in Sent(c2, EnvFan, {"subscribe", "unsubscribe"}) :
      q.topic = p.topic =>
        LET id  == p.message.id
            cid == q.client_id
            P1  == Handled(c1, p)
            Q1  == Handled(c2, q)
            pq  == OnMessage(P1.s, c2, q)
            qp  == OnMessage(Q1.s, c1, p)
            Once(s, subs) ==
              /\ \A x \in DOMAIN s.queues : Copies(s.queues[x], id) <= 1
              /\ \A k \in Conns : LiveOf(s.wrote[k], id) <= BoundTo(subs, k)
        IN /\ (P1.ret.success /\ pq.ret.success) =>
                Once(pq.s, topics[p.topic].subscribers)
           /\ (Q1.ret.success /\ qp.ret.success) =>
                Once(qp.s, Q1.s.topics[p.topic].subscribers)
           /\ (q.type = "subscribe" /\ P1.ret.success /\ pq.ret.success) =>
                /\ cid \in DOMAIN pq.s.queues
                /\ Copies(pq.s.queues[cid], id) = 0
                /\ c2 \notin SubConns(topics[p.topic].subscribers) =>
                      LiveOf(pq.s.wrote[c2], id) = 0
           /\ (q.type = "subscribe" /\ Q1.ret.success /\ qp.ret.success
                 /\ ~Rejects(Q1.s.queues[cid])) =>
                /\ Copies(qp.s.queues[cid], id) = 1
                /\ (IsOpen(qp.s.ws, c2)
                      /\ c2 \notin SubConns(topics[p.topic].subscribers)) =>
                      LiveOf(qp.s.wrote[c2], id) = 1
           /\ (q.type = "unsubscribe" /\ Q1.ret.success /\ qp.ret.success) =>
                LET i == SubIndex(topics[p.topic].subscribers, cid, 1)
                    k == topics[p.topic].subscribers[i].ws
                IN /\ i # 0
                   /\ cid \in DOMAIN qp.s.queues => Copies(qp.s.queues[cid], id) = 0
                   /\ LiveOf(qp.s.wrote[k], id)
                        <= BoundTo(topics[p.topic].subscribers, k) - 1

\* a topic with two subscribers: the first holds an earlier message that the
\* second, whose subscribe was processed after that publish, does not hold,
\* and both hold the message published last
C3_Witness ==
  \E t \in DOMAIN topics :
    LET S == topics[t].subscribers
    IN /\ Len(S) = 2
       /\ S[1].ws # S[2].ws
       /\ \A i \in 1..Len(S) : S[i].clientId \in DOMAIN subscriberQueues
       /\ \E n \in 1..Len(topicLog[t]) :
             /\ topicLog[t][n] < pubCount
             /\ Copies(subscriberQueues[S[1].clientId], topicLog[t][n]) = 1
             /\ Copies(subscriberQueues[S[2].clientId], topicLog[t][n]) = 0
       /\ \A i \in 1..Len(S) : Copies(subscriberQueues[S[i].clientId], pubCount) = 1

\* C4: publishes carry the ids 1, 2, 3, ... in the order they are processed.
\* In every subscriber queue the entries of one topic stand in increasing id
\* order; a live event that a handler writes carries the id of the publish being
\* processed, which is larger than every id published before; and the events of
\* one topic that one handler writes to one connection (a replay batch) are in
\* increasing id order.
C4_PerTopicOrdering ==
  /\ \A cid \in DOMAIN subscriberQueues :
        LET q == subscriberQueues[cid].queue
        IN \A i \in 1..Len(q) : \A j \in (i + 1)..Len(q) :
             q[i].topic = q[j].topic => q[i].message.id < q[j].message.id
  /\ \A c \in Senders : \A m \in Publishes(c) \cup Subscribes(c) :
        LET r == Handled(c, m)
        IN \A k \in Conns :
             LET ev == Events(r.s.wrote[k])
             IN /\ \A i \in 1..Len(ev) :
                     IF ev[i].replay
                     THEN ev[i].message.id <= pubCount
                     ELSE /\ m.type = "publish"
                          /\ ev[i].message.id = pubCount + 1
                          /\ r.s.pubCount = pubCount + 1
                /\ \A i \in 1..Len(ev) : \A j \in (i + 1)..Len(ev) :
                     ev[i].topic = ev[j].topic =>
                       /\ ev[i].message.id <= ev[j].message.id
                       /\ ev[i].replay => ev[i].message.id < ev[j].message.id

\* a subscriber that was fed two messages of a topic, one publish after the
\* other, holds them in its queue in that order
C4_Witness ==
  \E t \in DOMAIN topics : \E i \in 1..Len(topics[t].subscribers) :
    LET cid == topics[t].subscribers[i].clientId
        q   == subscriberQueues[cid].queue
    IN /\ cid \in DOMAIN subscriberQueues
       /\ Len(q) >= 2
       /\ Len(fed[cid]) >= 2
       /\ q[1].topic = t /\ q[2].topic = t
       /\ q[1].message.id < q[2].message.id
       /\ << q[1].message.id, q[2].message.id >> = LastK(fed[cid], 2)

\* the ids held by a subscriber queue, head first
QueueIds(q) == [i \in 1..Len(q.queue) |-> q.queue[i].message.id]

\* C5: under drop_oldest, a subscriber that has been fed N messages since it
\* subscribed (its queue is never drained) has a queue holding exactly the last
\* min(N, K) of them in publish order, with droppedCount = max(0, N - K); and
\* a publish that meets a full queue evicts exactly its head, appends the new
\* message and reports the evicted one as dropped.
C5_DropOldest ==
  backpressurePolicy = "drop_oldest" =>
    /\ \A t \in DOMAIN topics : \A i \in 1..Len(topics[t].subscribers) :
          LET cid == topics[t].subscribers[i].clientId
          IN /\ cid \in DOMAIN subscriberQueues
             /\ QueueIds(subscriberQueues[cid]) = LastK(fed[cid], MaxQueueSize)
             /\ subscriberQueues[cid].droppedCount
                  = Max(0, Len(fed[cid]) - MaxQueueSize)
    /\ \A c \in Senders : \A m \in Publishes(c) :
          LET r == Handled(c, m)
          IN r.ret.success =>
               \A i \in 1..Len(topics[m.topic].subscribers) :
                 LET cid == topics[m.topic].subscribers[i].clientId
                     old == subscriberQueues[cid]
                 IN (cid \in DOMAIN subscriberQueues /\ Len(old.queue) >= old.maxSize) =>
                      /\ r.s.queues[cid].queue
                           = Append(Tail(old.queue),
                                    EventFrame(m.topic, r.s.topics[m.topic].messages[
                                      Len(r.s.topics[m.topic].messages)], FALSE))
                      /\ r.s.queues[cid].droppedCount = old.droppedCount + 1
                      /\ \E d \in 1..Len(r.s.dropped) :
                            r.s.dropped[d] = [clientId |-> cid, topicName |-> m.topic,
                                              droppedMessage |-> Head(old.queue)]
                      /\ r.ret.deliveryResults[i].action = "dropped_oldest"

\* C6: under the disconnect policy, a publish that meets a subscriber whose
\* queue is full reports that subscriber as rejected with reason SLOW_CONSUMER,
\* leaves its queue as it was and leaves its connection not open: closing with
\* reason SLOW_CONSUMER if it was open; after the rejection the publish writes
\* no event to that connection. A connection that is not open is never written
\* an event by a publish or a subscribe and does not become open again.
C6_DisconnectBackpressure ==
  /\ \A c \in Senders : \A m \in Publishes(c) :
        LET r == Handled(c, m)
            S == topics[m.topic].subscribers
        IN r.ret.success =>
             \A i \in 1..Len(S) :
               LET cid == S[i].clientId
                   k   == S[i].ws
               IN (cid \in DOMAIN subscriberQueues /\ Rejects(subscriberQueues[cid])) =>
                    /\ r.ret.deliveryResults[i]
                         = Delivery(cid, FALSE, "disconnected", "SLOW_CONSUMER",
                                    subscriberQueues[cid].droppedCount)
                    /\ r.s.queues[cid] = subscriberQueues[cid]
                    /\ ~IsOpen(r.s.ws, k)
                    /\ IsOpen(ws, k) =>
                          r.s.ws[k] = [readyState |-> "CLOSING",
                                       closeReason |-> "SLOW_CONSUMER"]
                    /\ LiveOf(r.s.wrote[k], m.message.id)
                         <= Cardinality({ j \in 1..(i - 1) :
                              S[j].ws = k /\ Admitted(S, subscriberQueues, j) })
  /\ \A c \in Senders : \A m \in Publishes(c) \cup Subscribes(c) :
        LET r == Handled(c, m)
        IN \A k \in Conns :
             ~IsOpen(ws, k) => Events(r.s.wrote[k]) = << >> /\ ~IsOpen(r.s.ws, k)
  /\ \A k \in Conns :
        /\ ws[k].closeReason = "SLOW_CONSUMER" => ~IsOpen(ws, k)
        /\ k \in Senders => ~IsOpen(Closed(k).ws, k)

\* a subscriber whose full queue met one more publish: its connection is
\* closing with SLOW_CONSUMER and its queue still holds the first K messages
C6_Witness ==
  /\ backpressurePolicy = "disconnect"
  /\ \E t \in DOMAIN topics : \E i \in 1..Len(topics[t].subscribers) :
        LET e == topics[t].subscribers[i]
        IN /\ ws[e.ws] = [readyState |-> "CLOSING", closeReason |-> "SLOW_CONSUMER"]
           /\ e.clientId \in DOMAIN subscriberQueues
           /\ Len(fed[e.clientId]) = MaxQueueSize + 1
           /\ QueueIds(subscriberQueues[e.clientId])
                = SubSeq(fed[e.clientId], 1, MaxQueueSize)

\* C7: when the close of a connection that was closed for SLOW_CONSUMER is
\* processed, every client that was registered through that connection holds no
\* subscription in any topic afterwards and has no SubscriberQueue.
C7_SlowConsumerTeardown ==
  \A k \in Conns :
    ws[k] = [readyState |-> "CLOSING", closeReason |-> "SLOW_CONSUMER"] =>
      LET s1 == Closed(k)
      IN \A t \in DOMAIN topics : \A i \in 1..Len(topics[t].subscribers) :
           LET e == topics[t].subscribers[i]
           IN e.ws = k =>
                /\ ~HasSubscription(s1.topics, e.clientId)
                /\ e.clientId \notin DOMAIN s1.queues

\* C8: every topic's ring buffer holds at most maxMessagesPerTopic messages, and
\* after N publishes to the topic since its creation it holds exactly the
\* min(N, K) most recently published ones, oldest first.
C8_RingBufferBound ==
  \A t \in DOMAIN topics :
    /\ Len(topics[t].messages) <= MaxMessagesPerTopic
    /\ Len(topics[t].messages) = Min(Len(topicLog[t]), MaxMessagesPerTopic)
    /\ MsgIds(topics[t].messages) = LastK(topicLog[t], MaxMessagesPerTopic)

\* a topic that has evicted its oldest message
C8_Witness ==
  \E t \in DOMAIN topics :
    /\ Len(topicLog[t]) > MaxMessagesPerTopic
    /\ Len(topics[t].messages) = MaxMessagesPerTopic
    /\ topics[t].messages[1].id = topicLog[t][Len(topicLog[t]) - MaxMessagesPerTopic + 1]

\* C9: a subscribe with last_n = n that succeeds writes to its own connection,
\* if that is open, exactly the last min(n, length) entries of the topic's ring
\* buffer as events tagged replay, oldest first, and no event when n = 0; it
\* writes nothing to any other connection; a subscribe that fails replays
\* nothing.
C9_Replay ==
  \A c \in Senders : \A m \in Subscribes(c) :
    LET r == Handled(c, m)
    IN /\ r.ret.success =>
            LET want == LastK(topics[m.topic].messages, m.last_n)
            IN /\ IsOpen(ws, c) =>
                    Events(r.s.wrote[c])
                      = [i \in 1..Len(want) |-> EventFrame(m.topic, want[i], TRUE)]
               /\ ~IsOpen(ws, c) => r.s.wrote[c] = << >>
               /\ m.last_n = 0 => Events(r.s.wrote[c]) = << >>
               /\ \A k \in Conns \ {c} : r.s.wrote[k] = << >>
       /\ ~r.ret.success => \A k \in Conns : Events(r.s.wrote[k]) = << >>

\* a subscribe with last_n = 1 is processed on a topic whose ring buffer holds
\* two messages while another connection is open: only the newer message is
\* written, tagged replay, and only to the new subscriber
C9_Witness ==
  \E c \in Senders : \E m \in Subscribes(c) :
    LET r == Handled(c, m)
    IN /\ m.last_n = 1
       /\ r.ret.success
       /\ IsOpen(ws, c)
       /\ Len(topics[m.topic].messages) = 2
       /\ \E k \in Conns \ {c} : IsOpen(ws, k) /\ r.s.wrote[k] = << >>
       /\ Events(r.s.wrote[c])
            = << EventFrame(m.topic, topics[m.topic].messages[2], TRUE) >>

\* C10: a subscribe with last_n > 0 leaves every existing SubscriberQueue as
\* it was (contents, droppedCount, totalProcessed), adds at most an empty
\* queue for the subscribing client, emits no messageDropped and closes no
\* connection.
C10_ReplayBypassesQueue ==
  \A c \in Senders : \A m \in Subscribes(c) :
    m.last_n > 0 =>
      LET r == Handled(c, m)
      IN /\ \A cid \in DOMAIN subscriberQueues :
               /\ cid \in DOMAIN r.s.queues
               /\ r.s.queues[cid] = subscriberQueues[cid]
         /\ \A cid \in DOMAIN r.s.queues \ DOMAIN subscriberQueues :
               /\ r.ret.success
               /\ cid = m.client_id
               /\ r.s.queues[cid] = NewQueue(cid, MaxQueueSize, backpressurePolicy)
         /\ r.s.dropped = << >>
         /\ r.s.ws = ws
         /\ r.s.fed = fed

\* a first-time subscriber asks for a replay while another subscriber's queue
\* is full: the replay is written and the new subscriber's queue starts empty
C10_Witness ==
  \E c \in Senders : \E m \in Subscribes(c) :
    LET r == Handled(c, m)
    IN /\ m.last_n > 0
       /\ r.ret.success
       /\ Len(Events(r.s.wrote[c])) = MaxMessagesPerTopic
       /\ m.client_id \notin DOMAIN subscriberQueues
       /\ r.s.queues[m.client_id].queue = << >>
       /\ \E cid \in DOMAIN subscriberQueues :
             Len(subscriberQueues[cid].queue) = MaxQueueSize

\* the identity the connection manager holds for connection c
BoundId(cl, c) == IF c \in DOMAIN cl THEN cl[c].clientProvidedId ELSE NoVal

\* C11: once a connection has a bound identity, no later message changes it,
\* whatever client_id the message carries, and a successful subscribe or
\* unsubscribe acts on the bound identity: the subscriber it registers or
\* removes is the one named by the binding.
C11_IdentityBindingImmutable ==
  \A c \in Senders :
    BoundId(clients, c) # NoVal =>
      \A m \in Requests(c, EnvRebind) :
        LET r   == Handled(c, m)
            own == BoundId(clients, c)
        IN /\ BoundId(r.s.clients, c) = own
           /\ (m.type = "subscribe" /\ r.ret.success) =>
                 /\ SubHas(r.s.topics[m.topic].subscribers, own)
                 /\ ~SubHas(topics[m.topic].subscribers, own)
           /\ (m.type = "unsubscribe" /\ r.ret.success) =>
                 /\ SubHas(topics[m.topic].subscribers, own)
                 /\ ~SubHas(r.s.topics[m.topic].subscribers, own)

\* C12: when the close of a connection is processed, every subscription that
\* was registered through the connection is removed: afterwards no topic's
\* subscriber map holds an entry whose socket is the closed connection, and
\* the connection's record is gone.
C12_CloseTearsDownSubscriptions ==
  \A k \in Senders :
    LET s1 == Closed(k)
    IN /\ k \notin DOMAIN s1.clients
       /\ \A t \in DOMAIN s1.topics : BoundTo(s1.topics[t].subscribers, k) = 0

\* the registry and delivery state of a handler's result
Registry(s) ==
  [topics |-> s.topics, clientTopics |-> s.clientTopics, queues |-> s.queues]

\* C13: a protocol message that arrives on a connection that is not OPEN is
\* ignored: it changes no topic, subscription, ring buffer or queue, and it
\* causes no frame to be written to any connection.
C13_OnlyOpenAcceptsMessages ==
  \A c \in Senders :
    ~IsOpen(ws, c) =>
      \A m \in Requests(c, EnvFan) :
        LET r == Handled(c, m)
        IN /\ Registry(r.s) = Registry(Cur)
           /\ r.s.clients = clients
           /\ \A k \in Conns : r.s.wrote[k] = << >>

IsResponse(f) == f.type # "event"

\* the frames of fs that answer a request: everything but event deliveries
Responses(fs) == SelectSeq(fs, IsResponse)

ErrorCodes(fs) == { fs[i].topic : i \in { j \in 1..Len(fs) : fs[j].type = "error" } }

\* C15: a message on an open connection that is answered with BAD_REQUEST or
\* INVALID_MESSAGE leaves the connection open and changes nothing: the topics
\* with their subscribers and ring buffers, the per-client topic sets, the
\* subscriber queues and the connection records, the sender's bound identity
\* and topic set included, are as before the message.
C15_ProtocolErrorsMutateNothing ==
  \A c \in Senders :
    IsOpen(ws, c) =>
      \A m \in Requests(c, EnvFan) :
        LET r == Handled(c, m)
        IN ErrorCodes(r.s.wrote[c]) \cap {"BAD_REQUEST", "INVALID_MESSAGE"} # {} =>
             /\ r.s.ws = ws
             /\ Registry(r.s) = Registry(Cur)
             /\ r.s.clients = clients

\* C16: a subscribe is refused with TOPIC_NOT_FOUND when its topic is absent
\* and with ALREADY_SUBSCRIBED when its (topic, clientId) pair is registered,
\* a publish is refused with TOPIC_NOT_FOUND when its topic is absent, and a
\* request refused by the engine changes nothing: the topics with their
\* subscriber entries (handles included) and ring buffers, the per-client
\* topic sets and the subscriber queues stay as they were, nothing is
\* delivered and no connection is closed. No topic ever holds two entries
\* for one clientId.
C16_ResourceErrorsMutateNothing ==
  /\ \A t \in DOMAIN topics :
       Cardinality(SubIds(topics[t].subscribers)) = Len(topics[t].subscribers)
  /\ \A c \in Senders : \A m \in Sent(c, EnvAll, {"subscribe", "publish"}) :
       LET r == Handled(c, m)
       IN r.called =>
            /\ r.ret.success =
                 /\ m.topic \in DOMAIN topics
                 /\ m.type = "subscribe" => ~SubHas(topics[m.topic].subscribers, m.client_id)
            /\ ~r.ret.success =>
                 /\ r.ret.error = IF m.topic \notin DOMAIN topics
                                  THEN "TOPIC_NOT_FOUND" ELSE "ALREADY_SUBSCRIBED"
                 /\ IsOpen(ws, c) => ErrorCodes(r.s.wrote[c]) = {r.ret.error}
                 /\ Registry(r.s) = Registry(Cur)
                 /\ r.s.ws = ws
                 /\ r.s.pubCount = pubCount
                 /\ \A k \in Conns : Events(r.s.wrote[k]) = << >>

\* a connection subscribes with a client_id that another, open connection has
\* registered for the topic, after messages were published: the request is
\* refused with ALREADY_SUBSCRIBED and the entry keeps the other connection
C16_Witness ==
  \E c \in Senders : \E m \in Subscribes(c) :
    LET r == Handled(c, m)
    IN /\ r.called
       /\ r.ret.error = "ALREADY_SUBSCRIBED"
       /\ topics[m.topic].messages # << >>
       /\ subscriberQueues[m.client_id].queue # << >>
       /\ \E k \in Conns \ {c} :
            /\ IsOpen(ws, k)
            /\ [clientId |-> m.client_id, ws |-> k]
                 = r.s.topics[m.topic].subscribers[1]

\* C17: an unsubscribe for a (topic, clientId) pair that is not registered,
\* its topic absent or not, makes the engine return false, is answered with
\* TOPIC_NOT_FOUND and changes nothing in the registry; an unsubscribe that
\* succeeds removes the pair, and repeating it is such a refused unsubscribe,
\* so the registry after two is the registry after one.
C17_IdempotentUnsubscribe ==
  \A c \in Senders : \A m \in Sent(c, EnvAll, {"unsubscribe"}) :
    LET r  == Handled(c, m)
        r2 == OnMessage([r.s EXCEPT !.wrote = Cur.wrote], c, m)
        registered == /\ m.topic \in DOMAIN topics
                      /\ SubHas(topics[m.topic].subscribers, m.client_id)
    IN r.called =>
         /\ r.ret.success = registered
         /\ ~registered =>
              /\ Registry(r.s) = Registry(Cur)
              /\ r.s.ws = ws
              /\ IsOpen(ws, c) => ErrorCodes(r.s.wrote[c]) = {"TOPIC_NOT_FOUND"}
         /\ registered =>
              /\ ~SubHas(r.s.topics[m.topic].subscribers, m.client_id)
              /\ r2.called /\ ~r2.ret.success
              /\ Registry(r2.s) = Registry(r.s)
              /\ IsOpen(ws, c) => ErrorCodes(r2.s.wrote[c]) = {"TOPIC_NOT_FOUND"}

\* a connection that registered one client_id unsubscribes with another one
\* while the registered client has messages queued: the request is refused
\* and the registered subscription and its queue stay
C17_Witness ==
  \E c \in Senders : \E m \in Sent(c, EnvAll, {"unsubscribe"}) :
    LET r == Handled(c, m)
    IN /\ r.called /\ ~r.ret.success
       /\ m.topic \in DOMAIN topics
       /\ BoundTo(topics[m.topic].subscribers, c) = 1
       /\ \E cid \in DOMAIN subscriberQueues : subscriberQueues[cid].queue # << >>
       /\ Registry(r.s) = Registry(Cur)

\* message objects without an id, without a payload, and without either
Incomplete ==
  { [id |-> 0, payload |-> "p", ts |-> 0],
    [id |-> pubCount + 1, payload |-> NoVal, ts |-> 0],
    [id |-> 0, payload |-> NoVal, ts |-> 0] }

\* a message object with an id and a payload
Complete == [id |-> pubCount + 1, payload |-> "p", ts |-> 0]

\* C18: PubSubEngine.publish called with any topic name and any message fails
\* with TOPIC_NOT_FOUND when the topic does not exist, whatever the message,
\* fails with INVALID_MESSAGE when the topic exists and the message lacks its
\* id or its payload, and succeeds otherwise; a failed publish leaves every
\* ring buffer and every subscriber queue as it was, writes no frame and
\* changes nothing else.
C18_PublishValidationOrder ==
  \A t \in Topics : \A msg \in Incomplete \cup {Complete} :
    LET r == EnginePublish(Cur, t, msg)
    IN /\ t \notin DOMAIN topics =>
            ~r.ret.success /\ r.ret.error = "TOPIC_NOT_FOUND"
       /\ (t \in DOMAIN topics /\ msg \in Incomplete) =>
            ~r.ret.success /\ r.ret.error = "INVALID_MESSAGE"
       /\ (t \in DOMAIN topics /\ msg = Complete) => r.ret.success
       /\ ~r.ret.success => r.s = Cur

\* one topic has an open subscriber with room in its queue and a message in
\* its ring buffer, another topic does not exist: an incomplete message is
\* refused with INVALID_MESSAGE for the first and with TOPIC_NOT_FOUND for
\* the second, and the subscriber is left alone
C18_Witness ==
  \E t \in DOMAIN topics : \E u \in Topics \ DOMAIN topics : \E msg \in Incomplete :
    /\ topics[t].messages # << >>
    /\ \E i \in 1..Len(topics[t].subscribers) :
         LET e == topics[t].subscribers[i]
         IN /\ IsOpen(ws, e.ws)
            /\ Len(subscriberQueues[e.clientId].queue) < MaxQueueSize
    /\ EnginePublish(Cur, t, msg).ret.error = "INVALID_MESSAGE"
    /\ EnginePublish(Cur, u, msg).ret.error = "TOPIC_NOT_FOUND"
    /\ EnginePublish(Cur, t, msg).s.queues = subscriberQueues
    /\ EnginePublish(Cur, t, msg).s.wrote = Cur.wrote

\* C19: a publish to an existing topic with subscribers S succeeds whatever
\* happens to the single deliveries; it reports Len(S) subscribers and one
\* delivery outcome per member of S, in order; the message is the newest entry
\* of the ring buffer; and when the delivery to one member fails (its queue
\* rejects the message or its socket is not open), every other member that
\* backpressure does not refuse has the message in its queue once and, if its
\* socket is open, is written the event and reported as delivered. The
\* publisher, if still open, is sent its ack.
C19_DeliveryFailureIsolation ==
  \A c \in Senders : \A m \in Sent(c, EnvFan, {"publish"}) :
    LET r   == Handled(c, m)
        S   == topics[m.topic].subscribers
        id  == m.message.id
        res == r.ret.deliveryResults
    IN (r.called /\ m.topic \in DOMAIN topics) =>
         /\ r.ret.success
         /\ r.ret.subscribers = Len(S)
         /\ Len(res) = Len(S)
         /\ \A i \in 1..Len(S) :
              /\ res[i].clientId = S[i].clientId
              /\ res[i].success => IsOpen(ws, S[i].ws) /\ Admitted(S, subscriberQueues, i)
         /\ LET ring == r.s.topics[m.topic].messages
            IN ring # << >> /\ ring[Len(ring)].id = id
         /\ \A i \in 1..Len(S) :
              ~res[i].success =>
                \A j \in 1..Len(S) \ {i} :
                  (Admitted(S, subscriberQueues, j) /\ S[j].clientId \in DOMAIN subscriberQueues) =>
                    /\ Copies(r.s.queues[S[j].clientId], id) = 1
                    /\ IsOpen(r.s.ws, S[j].ws) =>
                         /\ LiveOf(r.s.wrote[S[j].ws], id) = 1
                         /\ res[j].success
         /\ IsOpen(r.s.ws, c) => Responses(r.s.wrote[c]) = << Frame("ack", NoVal) >>

\* a publish reaches two subscribers of which the first, earlier in the
\* subscriber map, fails (its queue is full under the disconnect policy) and
\* the second, on an open connection, is delivered the message
C19_Witness ==
  \E c \in Senders : \E m \in Sent(c, EnvFan, {"publish"}) :
    LET r   == Handled(c, m)
        res == r.ret.deliveryResults
    IN /\ r.called /\ r.ret.success
       /\ Len(res) = 2
       /\ ~res[1].success /\ res[1].reason = "SLOW_CONSUMER"
       /\ res[2].success
       /\ LiveOf(r.s.wrote[topics[m.topic].subscribers[2].ws], m.message.id) = 1

\* C20: PubSubEngine.createTopic called with the name of an existing topic
\* returns false and changes nothing, so the topic keeps its subscribers, its
\* ring buffer and its creation time; called with a new name it returns true
\* and registers a topic with no subscribers and an empty ring buffer, leaving
\* the other topics and everything else as they were.
C20_CreateTopic ==
  \A t \in Topics :
    LET r == EngineCreateTopic(Cur, t)
    IN IF t \in DOMAIN topics
       THEN /\ ~r.ret.success
            /\ r.s = Cur
       ELSE /\ r.ret.success
            /\ DOMAIN r.s.topics = DOMAIN topics \cup {t}
            /\ r.s.topics[t].subscribers = << >>
            /\ r.s.topics[t].messages = << >>
            /\ \A u \in DOMAIN topics : r.s.topics[u] = topics[u]
            /\ [r.s EXCEPT !.topics = topics] = Cur

\* createTopic is called for a topic that was created earlier and has a
\* subscriber and a message, and for a name that is not registered: the first
\* call returns false and keeps the topic, the second registers an empty one
C20_Witness ==
  \E t \in DOMAIN topics : \E u \in Topics \ DOMAIN topics :
    /\ topics[t].subscribers # << >>
    /\ topics[t].messages # << >>
    /\ topics[t].createdAt < now
    /\ ~EngineCreateTopic(Cur, t).ret.success
    /\ EngineCreateTopic(Cur, t).s.topics[t] = topics[t]
    /\ EngineCreateTopic(Cur, u).ret.success
    /\ EngineCreateTopic(Cur, u).s.topics[u].subscribers = << >>

\* C21: PubSubEngine.deleteTopic called for an existing topic returns true;
\* afterwards no subscriber of the topic is on an open connection, each one
\* that was open is closing with the reason 'Topic deleted', and no other
\* connection changed; the topic is gone from the registry while the other
\* topics are as they were; no per-client topic set names the topic, a set
\* that would become empty is removed and the other members are kept; and a
\* publish or a subscribe for the topic fails with TOPIC_NOT_FOUND. Called for
\* an absent topic it returns false and changes nothing.
C21_DeleteTopic ==
  \A t \in Topics :
    LET r == EngineDeleteTopic(Cur, t)
    IN IF t \notin DOMAIN topics
       THEN ~r.ret.success /\ r.s = Cur
       ELSE LET S == topics[t].subscribers
            IN /\ r.ret.success
               /\ \A k \in SubConns(S) :
                    /\ ~IsOpen(r.s.ws, k)
                    /\ IsOpen(ws, k) =>
                         r.s.ws[k] = [readyState |-> "CLOSING",
                                      closeReason |-> "Topic deleted"]
               /\ \A k \in Conns \ SubConns(S) : r.s.ws[k] = ws[k]
               /\ DOMAIN r.s.topics = DOMAIN topics \ {t}
               /\ \A u \in DOMAIN r.s.topics : r.s.topics[u] = topics[u]
               /\ DOMAIN r.s.clientTopics
                    = { cid \in DOMAIN clientTopics : clientTopics[cid] # {t} }
               /\ \A cid \in DOMAIN r.s.clientTopics :
                    r.s.clientTopics[cid] = clientTopics[cid] \ {t}
               /\ EnginePublish(r.s, t, Complete).ret = Ret(FALSE, "TOPIC_NOT_FOUND")
               /\ \A i \in ClientIds : \A k \in Conns :
                    EngineSubscribe(r.s, t, i, k, 0).ret = Ret(FALSE, "TOPIC_NOT_FOUND")

\* deleteTopic is called for a topic that holds a message and has a
\* subscriber on an open connection, while another topic exists: the
\* subscriber's connection starts closing with 'Topic deleted' and the other
\* topic stays
C21_Witness ==
  \E t \in DOMAIN topics : \E u \in DOMAIN topics \ {t} :
    LET r == EngineDeleteTopic(Cur, t)
    IN /\ topics[t].messages # << >>
       /\ \E k \in SubConns(topics[t].subscribers) :
            /\ IsOpen(ws, k)
            /\ r.s.ws[k].closeReason = "Topic deleted"
       /\ u \in DOMAIN r.s.topics
       /\ t \notin DOMAIN r.s.topics

C23_QueueLifecycle ==
  /\ \A cid \in DOMAIN subscriberQueues : HasSubscription(topics, cid)
  /\ \A t \in DOMAIN topics : SubIds(topics[t].subscribers) \subseteq DOMAIN subscriberQueues

\* C24: after PubSubEngine.disconnectClient(clientId) returns, in whatever
\* reachable state it was called, the client is a subscriber of no topic, has
\* no per-client topic set and has no SubscriberQueue, and the subscriptions,
\* topic sets and queues of the other clients, the ring buffers and the
\* connections are as they were.
C24_DisconnectClient ==
  \A cid \in ClientIds :
    LET r == EngineDisconnectClient(Cur, cid)
    IN /\ ~HasSubscription(r.s.topics, cid)
       /\ cid \notin DOMAIN r.s.clientTopics
       /\ cid \notin DOMAIN r.s.queues
       /\ \A o \in ClientIds \ {cid} :
            /\ o \in DOMAIN r.s.clientTopics <=> o \in DOMAIN clientTopics
            /\ o \in DOMAIN clientTopics => r.s.clientTopics[o] = clientTopics[o]
            /\ o \in DOMAIN r.s.queues <=> o \in DOMAIN subscriberQueues
            /\ o \in DOMAIN subscriberQueues => r.s.queues[o] = subscriberQueues[o]
       /\ DOMAIN r.s.topics = DOMAIN topics
       /\ \A t \in DOMAIN topics :
            /\ r.s.topics[t].messages = topics[t].messages
            /\ r.s.topics[t].subscribers = SubDelete(topics[t].subscribers, cid)
       /\ r.s.ws = ws

\* C25: once the shutdown handler has run to its end, the topic map, the
\* per-client topic map and the connection records are empty, and every
\* connection that was OPEN when the shutdown began is closing with the
\* server's 'Server shutdown' close; no connection is open.
C25_GracefulShutdown ==
  shutdownPc = "exit" =>
    /\ topics = EmptyMap
    /\ clientTopics = EmptyMap
    /\ clients = EmptyMap
    /\ \A c \in openAtShutdown :
         ws[c] = [readyState |-> "CLOSING", closeReason |-> "Server shutdown"]
    /\ \A c \in Conns : ~IsOpen(ws, c)

\* a shutdown has completed that began with two open connections, after a
\* message was published
C25_Witness ==
  /\ shutdownPc = "exit"
  /\ openAtShutdown = Conns
  /\ pubCount > 0
  /\ \A c \in Conns : ws[c].closeReason = "Server shutdown"

\* C26: the heartbeat timer is cancelled before the shutdown closes its first
\* connection: in every state in which some connection has been closed with
\* 'Server shutdown', the timer is no longer set.
C26_HeartbeatStoppedBeforeClose ==
  (\E c \in Conns : ws[c].closeReason = "Server shutdown") => ~heartbeatTimer

\* C27: whenever the heartbeat timer fires, every connection that is OPEN is
\* written exactly one info frame carrying 'heartbeat', and a connection that
\* is not OPEN (not yet connected, CLOSING or CLOSED) is written nothing.
C27_HeartbeatToOpenOnly ==
  (heartbeatTimer /\ shutdownPc = "running") =>
    \A c \in Conns :
      HeartbeatTick.wrote[c] = IF IsOpen(ws, c)
                               THEN << Frame("info", "heartbeat") >>
                               ELSE << >>

\* the timer can fire while one connection is open and another, which still
\* has its record, is closing: only the open one is written the heartbeat
C27_Witness ==
  /\ heartbeatTimer /\ shutdownPc = "running"
  /\ \E c \in DOMAIN clients : \E k \in DOMAIN clients :
       /\ IsOpen(ws, c)
       /\ ws[k].readyState = "CLOSING"
       /\ HeartbeatTick.wrote[c] = << Frame("info", "heartbeat") >>
       /\ HeartbeatTick.wrote[k] = << >>

\* C28: in every reachable state, under either backpressure policy, every
\* SubscriberQueue has capacity maxQueueSize and holds at most that many
\* pending messages.
C28_QueueBound ==
  \A cid \in DOMAIN subscriberQueues :
    /\ subscriberQueues[cid].maxSize = MaxQueueSize
    /\ subscriberQueues[cid].policy = backpressurePolicy
    /\ Len(subscriberQueues[cid].queue) <= MaxQueueSize

\* a subscriber has been fanned out more messages than its queue can hold,
\* and the queue is full
C28_Witness ==
  \E cid \in DOMAIN subscriberQueues :
    /\ Len(fed[cid]) > MaxQueueSize
    /\ Len(subscriberQueues[cid].queue) = MaxQueueSize

\* C29: a successful subscribe with last_n > 0 on an open connection writes
\* the ack to the sender first and the replayed events after it.
C29_AckBeforeReplay ==
  \A c \in Senders : \A m \in Sent(c, EnvSameId, {"subscribe"}) :
    LET r == Handled(c, m)
        w == r.s.wrote[c]
    IN (IsOpen(ws, c) /\ m.last_n > 0 /\ r.ret.success) =>
         /\ w # << >>
         /\ w[1].type = "ack"
         /\ \A i \in 2..Len(w) : IsEvent(w[i]) /\ w[i].replay

\* ---------------------------------------------------------------------------
\* GET /stats
\* ---------------------------------------------------------------------------

\* the statements of PubSubServer.initialize, in the order they run
InitializeSteps ==
  << "pubsubEngine", "app", "setupExpress", "server", "wss", "wsHandler",
     "setupWebSocket", "setupPubSubEvents", "setupGracefulShutdown" >>

\* this.wsHandler as statement number i of initialize finds it: null from the
\* constructor until the "wsHandler" statement has run
WsHandlerAt(i) ==
  IF \E j \in 1..(i - 1) : InitializeSteps[j] = "wsHandler"
  THEN "WebSocketHandler" ELSE "null"

\* the wsHandler argument setupExpress passes to new SystemRoutes, which the
\* routes keep for their lifetime
SystemRoutesWsHandler ==
  WsHandlerAt(CHOOSE i \in DOMAIN InitializeSteps : InitializeSteps[i] = "setupExpress")

\* WebSocketHandler.getStats
HandlerGetStats(s) ==
  [totalClients |-> Cardinality(DOMAIN s.clients),
   connectionCounter |-> s.connectionCounter]

\* SystemRoutes.getStats: the websocket part of the report
RouteGetStats(s) ==
  LET wsStats == IF SystemRoutesWsHandler # "null"
                 THEN HandlerGetStats(s)
                 ELSE [totalClients |-> 0, connectionCounter |-> 0]
  IN [websocket |-> [total_clients |-> wsStats.totalClients,
                     connection_counter |-> wsStats.connectionCounter,
                     active_connections |-> wsStats.totalClients]]

\* C30: after any sequence of connects and disconnects, the /stats report's
\* websocket.total_clients and websocket.active_connections both equal the
\* number of WebSocket clients connected at that moment.
C30_StatsCountConnected ==
  LET report == RouteGetStats(Cur).websocket
      connected == Cardinality({ c \in Conns : c \in DOMAIN clients })
  IN /\ report.total_clients = connected
     /\ report.active_connections = connected

\* every message held in the queue of client cid was fanned out to cid during
\* its current subscription and connection c, the only connection registered
\* for cid, is OPEN: c has been open since it subscribed, so each of those
\* messages has been sent to it
AllSent(cid, c) ==
  /\ IsOpen(ws, c)
  /\ \A t \in DOMAIN topics : \A i \in 1..Len(topics[t].subscribers) :
        topics[t].subscribers[i].clientId = cid => topics[t].subscribers[i].ws = c
  /\ cid \in DOMAIN subscriberQueues
  /\ \A i \in 1..Len(subscriberQueues[cid].queue) :
        \E j \in 1..Len(fed[cid]) : fed[cid][j] = subscriberQueues[cid].queue[i].message.id

\* C31: a subscriber whose connection has been OPEN at every publish, so that
\* every message fanned out to it was sent, is not penalised by a further
\* publish: its droppedCount stays 0, no messageDropped is emitted for it and
\* its connection is not closed with SLOW_CONSUMER.
C31_FastSubscriberNotPenalised ==
  \A c \in Senders : \A m \in Publishes(c) :
    LET r == Handled(c, m)
    IN r.ret.success =>
         \A i \in 1..Len(topics[m.topic].subscribers) :
           LET e == topics[m.topic].subscribers[i]
           IN AllSent(e.clientId, e.ws) =>
                /\ r.s.queues[e.clientId].droppedCount = 0
                /\ \A d \in 1..Len(r.s.dropped) : r.s.dropped[d].clientId # e.clientId
                /\ r.s.ws[e.ws].closeReason # "SLOW_CONSUMER"

\* C32: a publish sends the published message to no connection more than
\* once: whatever client_id values the earlier messages of a connection
\* carried, a publish writes at most one live event to each connection.
C32_AtMostOneEventPerConnection ==
  \A c \in Senders : \A m \in Publishes(c) :
    LET r == Handled(c, m)
    IN r.ret.success =>
         \A k \in Conns : LiveOf(r.s.wrote[k], m.message.id) <= 1

\* the subscriptions of state s that are registered with the handle of a
\* connection other than c that is open: (topic, subscriber entry) pairs
OthersSubscriptions(s, c) ==
  { p \in UNION { { << t, s.topics[t].subscribers[i] >> :
                      i \in 1..Len(s.topics[t].subscribers) } : t \in DOMAIN s.topics } :
      p[2].ws # c }

LiveOthersSubscriptions(s, c) ==
  { p \in OthersSubscriptions(s, c) : IsOpen(ws, p[2].ws) }

\* C33: an unsubscribe message from connection c, or the close of c, removes
\* no subscription whose registered connection handle is another connection
\* that is open, whatever client_id the two connections declare.
C33_ConnectionIsolation ==
  /\ \A c \in Senders : \A m \in Sent(c, EnvAll, {"unsubscribe"}) :
        LiveOthersSubscriptions(Cur, c) \subseteq OthersSubscriptions(Handled(c, m).s, c)
  /\ \A c \in DOMAIN clients :
        LiveOthersSubscriptions(Cur, c) \subseteq OthersSubscriptions(Closed(c), c)

\* C34: under drop_oldest, a publish to a topic evicts from a subscriber's
\* queue no pending message that was published to a different topic, and
\* every messageDropped notification names the topic of the message it
\* reports as evicted.
C34_EvictionStaysInTopic ==
  backpressurePolicy = "drop_oldest" =>
    \A c \in Senders : \A m \in Publishes(c) :
      LET r == Handled(c, m)
      IN r.ret.success =>
           /\ \A cid \in DOMAIN subscriberQueues :
                \A i \in 1..Len(subscriberQueues[cid].queue) :
                  LET f == subscriberQueues[cid].queue[i]
                  IN f.topic # m.topic =>
                       \E j \in 1..Len(r.s.queues[cid].queue) : r.s.queues[cid].queue[j] = f
           /\ \A d \in 1..Len(r.s.dropped) :
                r.s.dropped[d].droppedMessage.topic = r.s.dropped[d].topicName

\* C35: whenever a client that holds no subscription subscribes successfully,
\* the SubscriberQueue it has afterwards is fresh: empty, with droppedCount 0
\* and totalProcessed 0, whatever happened to that identity before.
C35_FreshQueueOnFirstSubscription ==
  \A c \in Senders : \A m \in Subscribes(c) :
    LET r == Handled(c, m)
    IN (r.ret.success /\ ~HasSubscription(topics, m.client_id)) =>
         /\ m.client_id \in DOMAIN r.s.queues
         /\ r.s.queues[m.client_id].queue = << >>
         /\ r.s.queues[m.client_id].droppedCount = 0
         /\ r.s.queues[m.client_id].totalProcessed = 0

\* C36: in every reachable state every client registered as a subscriber of a
\* topic has a SubscriberQueue, and so no publish records the per-subscriber
\* outcome SUBSCRIBER_QUEUE_NOT_FOUND.
C36_SubscriberHasQueue ==
  /\ \A t \in DOMAIN topics :
        SubIds(topics[t].subscribers) \subseteq DOMAIN subscriberQueues
  /\ \A c \in Senders : \A m \in Publishes(c) :
        LET r == Handled(c, m).ret.deliveryResults
        IN \A i \in 1..Len(r) : r[i].reason # "SUBSCRIBER_QUEUE_NOT_FOUND"

\* a topic has a subscriber and a publish to it has recorded an outcome for it
C36_Witness ==
  \E c \in Senders : \E m \in Publishes(c) :
    LET r == Handled(c, m)
    IN /\ r.ret.success
       /\ topics[m.topic].subscribers # << >>
       /\ Len(r.ret.deliveryResults) = Len(topics[m.topic].subscribers)

\* the (client, topic) pairs of the per-client topic sets
ClientTopicPairs ==
  UNION { { << cid, t >> : t \in clientTopics[cid] } : cid \in DOMAIN clientTopics }

\* the (client, topic) pairs of the subscriber maps of the existing topics
SubscriberPairs ==
  UNION { { << cid, t >> : cid \in SubIds(topics[t].subscribers) } : t \in DOMAIN topics }

RECURSIVE SumOver(_, _)
SumOver(f, ks) ==
  IF ks = {} THEN 0
  ELSE LET k == CHOOSE x \in ks : TRUE IN f[k] + SumOver(f, ks \ {k})

\* C37: in every reachable state topic t is in the topic set of client c
\* exactly when c is in the subscriber map of the existing topic t, no empty
\* topic set is stored, and the subscriber-map sizes add up to the same number
\* as the topic-set sizes.
C37_RegistryConsistency ==
  /\ ClientTopicPairs = SubscriberPairs
  /\ \A cid \in DOMAIN clientTopics : clientTopics[cid] # {}
  /\ SumOver([t \in DOMAIN topics |-> Len(topics[t].subscribers)], DOMAIN topics)
       = SumOver([cid \in DOMAIN clientTopics |-> Cardinality(clientTopics[cid])],
                 DOMAIN clientTopics)

\* two clients are registered as subscribers of one topic, each with that
\* topic in its topic set
C37_Witness ==
  \E t \in DOMAIN topics :
    /\ Len(topics[t].subscribers) = 2
    /\ \A cid \in SubIds(topics[t].subscribers) :
          cid \in DOMAIN clientTopics /\ t \in clientTopics[cid]

\* C38: deleteTopic(T) leaves every other topic as it was: the subscriber map,
\* the ring buffer and the creation time of each topic U other than T are the
\* same right after the call as before it, and no SubscriberQueue has other
\* contents or counters than before.
C38_DeleteTopicFrame ==
  \A t \in DOMAIN topics :
    LET r == EngineDeleteTopic(Cur, t)
    IN /\ r.ret.success
       /\ \A u \in DOMAIN topics \ {t} :
             u \in DOMAIN r.s.topics /\ r.s.topics[u] = topics[u]
       /\ \A cid \in DOMAIN r.s.queues :
             cid \in DOMAIN subscriberQueues /\ r.s.queues[cid] = subscriberQueues[cid]

\* a topic with a subscriber can be deleted while another topic has a
\* subscriber, a message in its ring buffer and a message in that
\* subscriber's queue
C38_Witness ==
  \E t \in DOMAIN topics : \E u \in DOMAIN topics \ {t} :
    /\ topics[t].subscribers # << >>
    /\ topics[u].messages # << >>
    /\ \E i \in 1..Len(topics[u].subscribers) :
          LET cid == topics[u].subscribers[i].clientId
          IN cid \in DOMAIN subscriberQueues /\ subscriberQueues[cid].queue # << >>
    /\ EngineDeleteTopic(Cur, t).ret.success

\* C39: once the engine's shutdown has run, no 'heartbeat' event is emitted
\* any more, so no heartbeat notification is sent to a connection after
\* shutdown: the latest emit never dates from after the engine's shutdown, and
\* from then on the timer is not set.
C39_NoHeartbeatAfterShutdown ==
  /\ beatAt # "exit"
  /\ shutdownPc = "exit" => ~heartbeatTimer

\* the engine has been shut down in a run in which the timer had fired
C39_Witness ==
  /\ shutdownPc = "exit"
  /\ beatAt = "running"
  /\ openAtShutdown # {}

====
